---- MODULE Spec2Model ----
(***************************************************************************)
(* Timesheet pipeline: lib/allocator.js (allocation engine),               *)
(* lib/parser.js (line classifier, segmenter, normalizer) and              *)
(* lib/payroll.js (pay calculator).                                        *)
(*                                                                         *)
(* Conventions                                                             *)
(*   - a JS value that may be a number, null or NaN is a record            *)
(*     [k |-> "num" | "null" | "nan", v |-> Int];                          *)
(*   - a time string "HH:MM" is [k |-> "time", v |-> 60*HH + MM]; the      *)
(*     string "NaN:NaN" is [k |-> "bad", v |-> 0];                         *)
(*   - an ISO date is [k |-> "date", v |-> day number]; day 0 is a Sunday, *)
(*     so the weekday of day d is d % 7 (0 = Sunday ... 6 = Saturday);     *)
(*   - totalHours is kept in minutes (hours * 60), pay in cents;           *)
(*   - a time zone is its offset from UTC in minutes, east positive (no    *)
(*     daylight-saving change inside one run).                             *)
(***************************************************************************)
EXTENDS Integers, Sequences, FiniteSets, TLC

VARIABLES
  procOff,      \* offset of the zone the Node process runs in
  envTZ,        \* process.env.TZ is set (the process then runs in that zone)
  today,        \* the local calendar date of new Date()
  \* ---- computePayForRow ----
  payRow,       \* the row argument, as it is after the call
  payTz,        \* the tz argument (null: not given)
  pay,          \* the returned pay in cents
  pcPay,        \* "idle" before the call, "done" after it
  \* ---- isoForWeekday ----
  wdName,       \* the name argument
  wdIso,        \* the returned date
  pcWd,
  \* ---- allocateTimesAcrossAddresses ----
  entries,      \* the entries argument
  apiKey,       \* googleApiKey is set
  pcA,          \* position of the async function
  groups,       \* groups, in Object.keys order
  gi,           \* index of the group being processed
  durations,    \* durations gathered so far by getDurationsBetweenAddresses
  out,          \* out
  allocLog,     \* history: one record per group that went through allocation
  replies,      \* history: the answers the provider gave for the current group
  emitLog,      \* history: per finished group, its key and the rows it pushed
  \* ---- parseTextToEntries ----
  lines,        \* lines: the trimmed, non-empty lines of the text argument
  li,           \* i, counted from 1
  current,      \* current: <<>> for null, else <<the entry being built>>
  parsed,       \* the function's entries array
  pcP,          \* "input", "scan" while in the loop, "done" after the return
  \* ---- server/index.js ----
  parsedDrafts, \* store.parsedDrafts
  clock,        \* Date.now(), in milliseconds since the server started
  reqs          \* the requests to the draft-storing routes, one record each

allocVars == <<entries, apiKey, pcA, groups, gi, durations, out, allocLog, replies, emitLog>>

env == <<procOff, envTZ, today>>
payVars == <<payRow, payTz, pay, pcPay>>
wdVars == <<wdName, wdIso, pcWd>>
parseVars == <<lines, li, current, parsed, pcP>>
serverVars == <<parsedDrafts, clock, reqs>>

vars == <<env, allocVars, payVars, wdVars, parseVars, serverVars>>

\* ------------------------------------------------------------------ bounds
MaxRows == 3
MaxReqs == 2
MaxClock == 1

\* ------------------------------------------------------------ JS values
Null == [k |-> "null", v |-> 0]
NaN == [k |-> "nan", v |-> 0]
Num(n) == [k |-> "num", v |-> n]
T(m) == [k |-> "time", v |-> m]
BadTime == [k |-> "bad", v |-> 0]
D(d) == [k |-> "date", v |-> d]

\* truthiness of a number-or-null (0, NaN and null are falsy)
Truthy(x) == x.k = "num" /\ x.v # 0
\* truthiness of a string-or-null (every modelled string is non-empty)
StrTruthy(x) == x.k # "null"

\* ---- the state of each function before it is called
PayIdle ==
  /\ payRow = [worker |-> "", date |-> Null, totalHours |-> Null]
  /\ payTz = Null
  /\ pay = 0
  /\ pcPay = "idle"

WdIdle ==
  /\ wdName = ""
  /\ wdIso = Null
  /\ pcWd = "idle"

ParseIdle ==
  /\ lines = <<>>
  /\ li = 0
  /\ current = <<>>
  /\ parsed = <<>>
  /\ pcP = "input"

ServerIdle ==
  /\ parsedDrafts = <<>>
  /\ clock = 0
  /\ reqs = [r \in 1..MaxReqs |->
               [pc |-> "none", route |-> "none",
                text |-> [k |-> "missing", ws |-> FALSE, ls |-> <<>>],
                status |-> 0, draftId |-> -1, entries |-> <<>>,
                ranParser |-> FALSE, ranAllocator |-> FALSE,
                exportStatus |-> 0, exported |-> <<>>]]

AllocIdle ==
  /\ entries = <<>>
  /\ apiKey = FALSE
  /\ pcA = "input"
  /\ groups = <<>>
  /\ gi = 0
  /\ durations = <<>>
  /\ out = <<>>
  /\ allocLog = <<>>
  /\ replies = <<>>
  /\ emitLog = <<>>

Max(a, b) == IF a >= b THEN a ELSE b

\* Math.round(a / b) for b > 0: nearest integer, halves toward +infinity
Round(a, b) == (2 * a + b) \div (2 * b)
\* Math.ceil(a / b) for b > 0
Ceil(a, b) == -((-a) \div b)

RECURSIVE SumSeq(_)
SumSeq(s) == IF s = <<>> THEN 0 ELSE Head(s) + SumSeq(Tail(s))

\* ------------------------------------------------------- lib/allocator.js
ProcOffsets == {-300, 0, 60}

roundToNearestQuarterMinutes(minutes) == Round(minutes, 15) * 15

\* utcToZonedTime(zonedTimeToUtc(`${dateIso} ${timeStr}`, tz), tz): a Date whose
\* local fields (in the process zone) show the wall clock dateIso timeStr, kept
\* as its instant in minutes since day 0 00:00 UTC; null when timeStr is empty
\* or the string does not parse (the catch of parseTimeToDate)
parseTimeToDate(dateIso, timeStr, off) ==
  IF ~StrTruthy(timeStr) THEN Null
  ELSE IF dateIso.k # "date" \/ timeStr.k # "time" THEN Null
  ELSE Num(dateIso.v * 1440 + timeStr.v - off)

\* endDt - startDt in minutes (null converts to 0)
DateDiff(endDt, startDt) ==
  (IF endDt.k = "num" THEN endDt.v ELSE 0) - (IF startDt.k = "num" THEN startDt.v ELSE 0)

KEYWORDS ==
  {"install", "replace", "repair", "leak", "leaking", "remove", "service",
   "shovel", "snow", "emergency"}

\* String.includes for the words of the modelled vocabulary
Includes(word, kw) == word = kw \/ (word = "leaking" /\ kw = "leak")

\* text is the set of words of `${description} ${notes} ${address}`
complexityWeight(text) ==
  1 + Cardinality({kw \in KEYWORDS : \E w \in text : Includes(w, kw)})

\* minutesToTimeStr(addMinutes(new Date(date + "T00:00:00.000Z"), minutes)):
\* getHours/getMinutes read the process zone
minutesToTimeStr(minutes, off) == T((minutes + off) % 1440)

WorkerKey(e) == IF e.worker = "" THEN "Unknown" ELSE e.worker

\* e.date || (e.start && e.start.split("T")[0]) || e.date
GroupDate(e) ==
  IF StrTruthy(e.date) THEN e.date
  ELSE IF StrTruthy(e.start) THEN [k |-> "bad", v |-> e.start.v]
  ELSE e.date

RECURSIVE GroupsOf(_, _)
\* grouping by worker alone
GroupsOf_ByWorker(es, acc) ==
  IF es = <<>> THEN acc
  ELSE LET e == Head(es)
           hit == {i \in DOMAIN acc : acc[i].worker = WorkerKey(e)}
       IN IF hit = {}
          THEN GroupsOf(Tail(es),
                 Append(acc, [worker |-> WorkerKey(e), date |-> GroupDate(e),
                              rows |-> <<e>>]))
          ELSE LET i == CHOOSE j \in hit : TRUE
               IN GroupsOf(Tail(es), [acc EXCEPT ![i].rows = Append(@, e)])

GroupsOf(es, acc) ==
  IF es = <<>> THEN acc
  ELSE LET e == Head(es)
           hit == {i \in DOMAIN acc :
                     acc[i].worker = WorkerKey(e) /\ acc[i].date = GroupDate(e)}
       IN IF hit = {}
          THEN GroupsOf(Tail(es),
                 Append(acc, [worker |-> WorkerKey(e), date |-> GroupDate(e),
                              rows |-> <<e>>]))
          ELSE LET i == CHOOSE j \in hit : TRUE
               IN GroupsOf(Tail(es), [acc EXCEPT ![i].rows = Append(@, e)])

HasTimes(r) == StrTruthy(r.start) /\ StrTruthy(r.end)
HasDuration(r) == Truthy(r.totalHours) \/ HasTimes(r)

\* lines 109-120: totalHours from start/end when missing, no wrap past midnight
NormalizeRow(g, r, off) ==
  IF ~Truthy(r.totalHours) /\ HasTimes(r)
  THEN LET startDt == parseTimeToDate(g.date, r.start, off)
           endDt == parseTimeToDate(g.date, r.end, off)
           minutes == roundToNearestQuarterMinutes(DateDiff(endDt, startDt))
       IN [r EXCEPT !.totalHours = Num(Max(0, minutes))]
  ELSE r

\* lines 127-136
Totals(rows) ==
  {rows[i].totalHours.v : i \in {j \in DOMAIN rows : Truthy(rows[j].totalHours)}}

SumKnown(rows) ==
  SumSeq([i \in DOMAIN rows |->
            IF Truthy(rows[i].totalHours) THEN rows[i].totalHours.v ELSE 0])

StatedDayTotal(rows) ==
  IF Cardinality(Totals(rows)) = 1 THEN Num(CHOOSE t \in Totals(rows) : TRUE)
  ELSE IF SumKnown(rows) > 0 THEN Num(SumKnown(rows))
  ELSE Null

\* lines 138-145
NotedDayTotal(rows) ==
  LET hit == {i \in DOMAIN rows :
                "total" \in rows[i].notes /\ Truthy(rows[i].totalHours)}
  IN IF hit = {} THEN Null
     ELSE rows[CHOOSE i \in hit : \A j \in hit : i <= j].totalHours

\* lines 148-158
Computed(g, off) ==
  [i \in DOMAIN g.rows |->
     LET r == g.rows[i]
         sd == parseTimeToDate(g.date, r.start, off)
         ed == parseTimeToDate(g.date, r.end, off)
     IN IF HasTimes(r) /\ sd.k = "num" /\ ed.k = "num"
        THEN roundToNearestQuarterMinutes(ed.v - sd.v)
        ELSE 0]

\* every group is redistributed
GroupPath_AlwaysAllocate(g, off) == "allocate"

\* which of the three exits of the group loop the group takes
GroupPath(g, off) ==
  IF \A i \in DOMAIN g.rows : HasDuration(g.rows[i]) THEN "normalize"
  ELSE IF StatedDayTotal(g.rows).k = "null" /\ NotedDayTotal(g.rows).k = "null"
          /\ SumSeq(Computed(g, off)) > 0 THEN "computed"
  ELSE "allocate"

DayTotal(g) ==
  IF StatedDayTotal(g.rows).k # "null" THEN StatedDayTotal(g.rows).v
  ELSE IF NotedDayTotal(g.rows).k # "null" THEN NotedDayTotal(g.rows).v
  ELSE 8 * 60

\* the targets taken last to first
Targets_Reversed(rows) ==
  [i \in 1..Len(SelectSeq(rows, LAMBDA r : ~Truthy(r.totalHours))) |->
     SelectSeq(rows, LAMBDA r : ~Truthy(r.totalHours))[
       Len(SelectSeq(rows, LAMBDA r : ~Truthy(r.totalHours))) + 1 - i]]

Targets(rows) == SelectSeq(rows, LAMBDA r : ~Truthy(r.totalHours))
\* the fixed rows taken to be those that also carry a start
Fixed_WithStart(rows) ==
  SelectSeq(rows, LAMBDA r : Truthy(r.totalHours) /\ StrTruthy(r.start))

Fixed(rows) == SelectSeq(rows, LAMBDA r : Truthy(r.totalHours))

\* the answers of one Distance Matrix request (axios.get, lines 46-56)
Responses ==
  [kind : {"ok"}, secs : {0, 400, 28740}]
    \cup [kind : {"notok"}, secs : {0, 100}]
    \cup {[kind |-> "malformed", secs |-> 0], [kind |-> "throw", secs |-> 0]}

\* lines 47-56: the minutes stored in durations[i] for an answer that did not throw
PairMinutes(resp) ==
  IF resp.kind = "ok" THEN Ceil(resp.secs, 60)
  ELSE IF resp.kind = "notok"
       THEN (IF resp.secs # 0 THEN Round(resp.secs, 60) ELSE 15)
  ELSE 15

NoTravel == [ok |-> FALSE, d |-> <<>>]

\* line 32: the provider is asked only with a key and two or more addresses
AsksProvider(key, g) == key /\ Len(Targets(g.rows)) >= 2

\* lines 216-224: the cursor's first position, NaN when group.date is no date
FirstCursor(g, fixed, off) ==
  LET fixedStarts ==
        {parseTimeToDate(g.date, fixed[i].start, off).v :
           i \in {j \in DOMAIN fixed :
                    parseTimeToDate(g.date, fixed[j].start, off).k = "num"}}
  IN IF fixedStarts # {}
     THEN Num(roundToNearestQuarterMinutes(
                (CHOOSE a \in fixedStarts : \A b \in fixedStarts : a <= b) % 1440))
     ELSE IF g.date.k = "date" THEN Num(roundToNearestQuarterMinutes(8 * 60))
     ELSE NaN

\* line 235-236: the cursor after one target
NextCursor(endMinutes, travel) == roundToNearestQuarterMinutes(endMinutes + travel)

RECURSIVE AssignTargets(_, _, _, _, _, _)
\* lines 225-237
AssignTargets(targets, serv, travelBy, i, cursor, off) ==
  IF i > Len(targets) THEN <<>>
  ELSE IF cursor.k # "num"
       THEN <<[targets[i] EXCEPT !.totalHours = NaN, !.start = BadTime,
                                 !.end = BadTime]>>
              \o AssignTargets(targets, serv, travelBy, i + 1, NaN, off)
  ELSE LET startMinutes == cursor.v
           endMinutes == startMinutes + serv[i]
       IN <<[targets[i] EXCEPT
               !.totalHours = Num(Round(endMinutes - startMinutes, 15) * 15),
               !.start = minutesToTimeStr(startMinutes, off),
               !.end = minutesToTimeStr(endMinutes, off)]>>
            \o AssignTargets(targets, serv, travelBy, i + 1,
                 Num(NextCursor(endMinutes, travelBy[i])), off)

\* AvailableMinutes without the travel minutes taken off
AvailableMinutes_NoTravel(remainder, totalTravelMinutes) == remainder

\* lines 188-198
AvailableMinutes(remainder, totalTravelMinutes) ==
  IF remainder - totalTravelMinutes < 0
  THEN Max(0, remainder - totalTravelMinutes)
  ELSE remainder - totalTravelMinutes

\* lines 172-240 for one group; travel is travelDurations (ok = FALSE: null)
AllocateGroup(g, travel, off) ==
  LET dayTotal == DayTotal(g)
      targets == Targets(g.rows)
      fixed == Fixed(g.rows)
      n == Len(targets)
      knownSum == SumSeq([i \in DOMAIN fixed |-> fixed[i].totalHours.v])
      remainder == Max(0, dayTotal - knownSum)
      totalTravelMinutes ==
        IF travel.ok /\ Len(travel.d) > 0 THEN SumSeq(travel.d)
        ELSE Max(0, (n - 1) * 15)
      availableMinutes == AvailableMinutes(remainder, totalTravelMinutes)
      weights == [i \in DOMAIN targets |-> complexityWeight(targets[i].notes)]
      weightSum == IF SumSeq(weights) # 0 THEN SumSeq(weights) ELSE n
      serviceMinutesByTarget ==
        [i \in DOMAIN targets |->
           Round(weights[i] * Max(0, availableMinutes), weightSum)]
      travelByTarget ==
        [i \in DOMAIN targets |->
           IF i - 1 < (IF travel.ok THEN Len(travel.d) ELSE n - 1)
           THEN (IF travel.ok THEN travel.d[i] ELSE 15)
           ELSE 0]
      serv ==
        [i \in DOMAIN targets |->
           IF serviceMinutesByTarget[i] # 0 THEN serviceMinutesByTarget[i]
           ELSE Round(availableMinutes, Max(1, n))]
      assigned ==
        AssignTargets(targets, serv, travelByTarget, 1,
                      FirstCursor(g, fixed, off), off)
  IN [dayTotal |-> dayTotal, fixed |-> fixed, targets |-> assigned,
      travel |-> travelByTarget, serv |-> serv,
      availableMinutes |-> availableMinutes]

\* lines 105-124 and 147-168: the rows a group emits without allocation
PassGroup(g, off) ==
  IF GroupPath(g, off) = "normalize"
  THEN [i \in DOMAIN g.rows |-> NormalizeRow(g, g.rows[i], off)]
  ELSE [i \in DOMAIN g.rows |->
          IF ~Truthy(g.rows[i].totalHours) /\ HasTimes(g.rows[i])
          THEN [g.rows[i] EXCEPT !.totalHours = Num(Computed(g, off)[i])]
          ELSE g.rows[i]]

\* --------------------------------------------------------- lib/payroll.js
NewYork == -300

RATES == [w \in {"Jose", "José", "Myer", "Damian", "Chris"} |->
            CASE w = "Jose" -> 25
              [] w = "José" -> 25
              [] w = "Myer" -> 20
              [] w = "Damian" -> 30
              [] w = "Chris" -> 30]

\* tz || process.env.TZ || "America/New_York"
EffectiveTz(tz, envSet, off) ==
  IF tz.k = "num" THEN tz.v ELSE IF envSet THEN off ELSE NewYork

\* utcToZonedTime(parseISO(dateIso), tz).getDay(): parseISO reads a date-only
\* string as midnight in the process zone; utcToZonedTime gives that instant's
\* wall clock in tz
ZonedDay(dateIso, tzOff, off) ==
  ((dateIso.v * 1440 - off + tzOff) \div 1440) % 7

isWeekend(dateIso, tz, envSet, off) ==
  IF dateIso.k # "date" THEN FALSE
  ELSE LET day == ZonedDay(dateIso, EffectiveTz(tz, envSet, off), off)
       IN day = 0 \/ day = 6

PremiumWorkers == {"Jose", "José", "Chris", "Damian"}

\* pay in cents: Math.round(pay * 100), hours being totalHours in minutes / 60
computePayForRow(row, tz, envSet, off) ==
  LET worker == row.worker
      rate == IF worker \in DOMAIN RATES THEN RATES[worker] ELSE 0
      hours == IF Truthy(row.totalHours) THEN row.totalHours.v ELSE 0
      weekend == isWeekend(row.date, tz, envSet, off)
  IN IF weekend /\ worker \in PremiumWorkers
     THEN Round(hours * rate * 3 * 100, 120)
     ELSE Round(hours * rate * 100, 60)

PayWorkers == {"Jose", "José", "Myer", "Damian", "Chris", "Alex", ""}
PayDates == {Null, D(5), D(6), D(7), D(8)}
PayHours == {Null, Num(15), Num(480), Num(510)}
PayRows == [worker : PayWorkers, date : PayDates, totalHours : PayHours]
TzArgs == {Null, Num(NewYork), Num(0), Num(60)}

InitPay ==
  /\ procOff \in ProcOffsets
  /\ envTZ \in BOOLEAN
  /\ today = 0
  /\ PayIdle
  /\ WdIdle
  /\ AllocIdle
  /\ ParseIdle
  /\ ServerIdle

\* one call of computePayForRow(row, tz)
ComputePay ==
  /\ pcPay = "idle"
  /\ \E row \in PayRows, tz \in TzArgs :
       /\ payRow' = row
       /\ payTz' = tz
       /\ pay' = computePayForRow(row, tz, envTZ, procOff)
  /\ pcPay' = "done"
  /\ UNCHANGED <<serverVars, env, allocVars, wdVars, parseVars>>

\* the caller drops the result and calls again
PayAgain ==
  /\ pcPay = "done"
  /\ payRow' = [worker |-> "", date |-> Null, totalHours |-> Null]
  /\ payTz' = Null
  /\ pay' = 0
  /\ pcPay' = "idle"
  /\ UNCHANGED <<serverVars, env, allocVars, wdVars, parseVars>>

NextPay == ComputePay \/ PayAgain

SpecPay == InitPay /\ [][NextPay]_vars

\* --------------------------------------------- lib/parser.js: isoForWeekday
MaxToday == 13

WEEKDAYS ==
  [key \in {"sun", "mon", "tue", "wed", "thu", "fri", "sat"} |->
     CASE key = "sun" -> 0 [] key = "mon" -> 1 [] key = "tue" -> 2
       [] key = "wed" -> 3 [] key = "thu" -> 4 [] key = "fri" -> 5
       [] key = "sat" -> 6]

\* name.toLowerCase().slice(0,3) for the names the weekday pattern matches
WeekdayKey ==
  [name \in {"sunday", "monday", "tuesday", "wednesday", "thursday", "friday",
             "saturday", "sun", "mon", "tue", "wed", "thu", "fri", "sat"} |->
     CASE name \in {"sunday", "sun"} -> "sun"
       [] name \in {"monday", "mon"} -> "mon"
       [] name \in {"tuesday", "tue"} -> "tue"
       [] name \in {"wednesday", "wed"} -> "wed"
       [] name \in {"thursday", "thu"} -> "thu"
       [] name \in {"friday", "fri"} -> "fri"
       [] name \in {"saturday", "sat"} -> "sat"]

WeekdayNames == DOMAIN WeekdayKey

\* new Date(y, m, d).toISOString().slice(0,10): the UTC date of local midnight
\* of local day d
LocalMidnightIso(day, off) == D((day * 1440 - off) \div 1440)

\* now is the local date of new Date()
isoForWeekday(name, now, off) ==
  LET target == WEEKDAYS[WeekdayKey[name]]
      todayDay == now % 7
      diff == IF todayDay - target < 0 THEN todayDay - target + 7
              ELSE todayDay - target
  IN LocalMidnightIso(now - diff, off)

InitWd ==
  /\ procOff \in ProcOffsets
  /\ envTZ = FALSE
  /\ today \in 0..MaxToday
  /\ PayIdle
  /\ WdIdle
  /\ AllocIdle
  /\ ParseIdle
  /\ ServerIdle

\* one call of isoForWeekday(name)
ResolveWeekday ==
  /\ pcWd = "idle"
  /\ \E name \in WeekdayNames :
       /\ wdName' = name
       /\ wdIso' = isoForWeekday(name, today, procOff)
  /\ pcWd' = "done"
  /\ UNCHANGED <<serverVars, env, allocVars, payVars, parseVars>>

NextWd == ResolveWeekday

SpecWd == InitWd /\ [][NextWd]_vars

\* ---------------------------------------------------------- lib/parser.js
\* A line of text is a sequence of atoms: a maximal run of letters ("word"),
\* a maximal run of digits ("num", n its value) or one other character
\* ("punct"); sp says that white space precedes the atom.  The patterns of
\* the source are matched on atoms; patterns with the i flag are matched on
\* the spelling the modelled lines use.
Atom(t, s, n, sp) == [t |-> t, s |-> s, n |-> n, sp |-> sp]
W(s) == Atom("word", s, 0, FALSE)
N(s, n) == Atom("num", s, n, FALSE)
P(s) == Atom("punct", s, 0, FALSE)
Sp(a) == [a EXCEPT !.sp = TRUE]

\* \w characters; \b lies between a \w and a non-\w character (or a line end)
IsWordChar(a) == a.t \in {"word", "num"}
BoundaryBefore(line, i) == i = 1 \/ line[i].sp \/ ~IsWordChar(line[i - 1])
BoundaryAfter(line, i) ==
  i = Len(line) \/ line[i + 1].sp \/ ~IsWordChar(line[i + 1])
IsPunct(line, i, chars) ==
  i <= Len(line) /\ line[i].t = "punct" /\ line[i].s \in chars
Glued(line, i) == i <= Len(line) /\ ~line[i].sp

\* the least element of a non-empty set of indices
Least(S) == CHOOSE i \in S : \A j \in S : i <= j

\* line.trim() of a slice: no white space before its first atom
Trim(line) == IF line = <<>> THEN <<>> ELSE [line EXCEPT ![1].sp = FALSE]

WORKERS == <<"Jose", "José", "Damian", "Chris", "Myer">>

\* new RegExp('\\b' + w + '\\b', 'i').test(line).  The last character of
\* "José" is not a word character (\w is [A-Za-z0-9_]), so a line spells it as
\* the word "Jos" and the character "é", and the \b after it asks for a word
\* character right behind the "é"
HasWord(line, w) ==
  IF w = "José"
  THEN \E i \in DOMAIN line :
         /\ line[i].t = "word" /\ line[i].s = "Jos"
         /\ BoundaryBefore(line, i)
         /\ Glued(line, i + 1) /\ IsPunct(line, i + 1, {"é"})
         /\ Glued(line, i + 2) /\ IsWordChar(line[i + 2])
  ELSE \E i \in DOMAIN line :
         /\ line[i].t = "word" /\ line[i].s = w
         /\ BoundaryBefore(line, i) /\ BoundaryAfter(line, i)

\* "" stands for null
findWorker(line) ==
  LET hit == {k \in DOMAIN WORKERS : HasWord(line, WORKERS[k])}
  IN IF hit = {} THEN "" ELSE WORKERS[Least(hit)]

\* the first two digits of a run of two or more digits
FirstTwo(a) == a.n \div (10 ^ (Len(a.s) - 2))

IsAmPm(line, i) ==
  i <= Len(line) /\ line[i].t = "word" /\ line[i].s \in {"AM", "PM", "am", "pm"}

\* normalizeTime of the text h[:mm][ ap]; ap = "" when there is none
normalizeTime(h, mm, ap) ==
  LET pm == ap \in {"PM", "pm"}
      hh == IF ap # "" /\ pm /\ h < 12 THEN h + 12
            ELSE IF ap # "" /\ ~pm /\ h = 12 THEN 0
            ELSE h
  IN T(hh * 60 + mm)

\* \d{1,2}:\d{2}\s*(?:AM|PM|am|pm)? starting in atom i; last: the minutes are
\* the pattern's end (extra digits after the two are left unmatched)
TimeAt(line, i, last) ==
  LET ok == /\ i + 2 <= Len(line)
            /\ line[i].t = "num"
            /\ IsPunct(line, i + 1, {":"}) /\ Glued(line, i + 1)
            /\ line[i + 2].t = "num" /\ Glued(line, i + 2)
            /\ Len(line[i + 2].s) >= 2
            /\ (last \/ Len(line[i + 2].s) = 2)
      ap == IF ok /\ Len(line[i + 2].s) = 2 /\ IsAmPm(line, i + 3)
            THEN line[i + 3].s ELSE ""
  IN [ok |-> ok,
      time |-> IF ok THEN normalizeTime(line[i].n % 100, FirstTwo(line[i + 2]), ap)
               ELSE Null,
      next |-> IF ap # "" THEN i + 4 ELSE i + 3]

\* one to three characters of the class [en dash, em dash, -, t, o]: a dash
\* (the atoms "-", "endash", "emdash") or the word "to"
IsRangeSep(line, i) ==
  IsPunct(line, i, {"-", "endash", "emdash"})
    \/ (i <= Len(line) /\ line[i].t = "word" /\ line[i].s = "to")

\* lines 87-90: H:MM[ AM] <sep> H:MM[ AM]
RangeAt(line, i) ==
  LET t1 == TimeAt(line, i, FALSE)
      t2 == TimeAt(line, t1.next + 1, TRUE)
  IN [ok |-> t1.ok /\ IsRangeSep(line, t1.next) /\ t2.ok,
      start |-> t1.time, end |-> t2.time]

\* [\d:]{1,5}\s*(?:AM|PM|am|pm)? read by normalizeTime: H, HH or H:MM
HourAt(line, i) ==
  LET ok == i <= Len(line) /\ line[i].t = "num" /\ Len(line[i].s) <= 2
      hasMin == /\ ok /\ i + 2 <= Len(line)
                /\ IsPunct(line, i + 1, {":"}) /\ Glued(line, i + 1)
                /\ line[i + 2].t = "num" /\ Glued(line, i + 2)
                /\ Len(line[i + 2].s) = 2
      j == IF hasMin THEN i + 3 ELSE i + 1
      ap == IF ok /\ IsAmPm(line, j) THEN line[j].s ELSE ""
  IN [ok |-> ok,
      time |-> IF ok THEN normalizeTime(line[i].n, IF hasMin THEN line[i + 2].n ELSE 0, ap)
               ELSE Null,
      next |-> IF ap # "" THEN j + 1 ELSE j]

\* lines 91-92: hours[:\s]* H <sep> H
HoursRangeAt(line, i) ==
  LET colons == IF IsPunct(line, i + 1, {":"}) THEN 1 ELSE 0
      t1 == HourAt(line, i + 1 + colons)
      t2 == HourAt(line, t1.next + 1)
  IN [ok |-> /\ line[i].t = "word" /\ line[i].s \in {"hours", "Hours"}
             /\ t1.ok /\ IsRangeSep(line, t1.next) /\ t2.ok,
      start |-> t1.time, end |-> t2.time]

\* lines 93-94: start(ed) at H[:MM][ AM] and stop(ped) [at] H[:MM][ AM]
StartAt(line, i) ==
  LET t == HourAt(line, i + 2)
  IN [ok |-> /\ line[i].t = "word" /\ line[i].s \in {"start", "started"}
             /\ i + 2 <= Len(line)
             /\ line[i + 1].t = "word" /\ line[i + 1].s = "at" /\ line[i + 1].sp
             /\ line[i + 2].sp /\ t.ok,
      time |-> t.time]

StopAt(line, i) ==
  LET at == IF i + 1 <= Len(line) /\ line[i + 1].t = "word" /\ line[i + 1].s = "at"
            THEN 1 ELSE 0
      t == HourAt(line, i + 1 + at)
  IN [ok |-> /\ line[i].t = "word" /\ line[i].s \in {"stop", "stopped"}
             /\ i + 1 + at <= Len(line) /\ line[i + 1 + at].sp /\ t.ok,
      time |-> t.time]

NoTimes == [ok |-> FALSE, start |-> Null, end |-> Null]

findTimes(line) ==
  LET m == {i \in DOMAIN line : RangeAt(line, i).ok}
      m2 == {i \in DOMAIN line : HoursRangeAt(line, i).ok}
      ms == {i \in DOMAIN line : StartAt(line, i).ok}
      me == {i \in DOMAIN line : StopAt(line, i).ok}
  IN IF m # {} THEN RangeAt(line, Least(m))
     ELSE IF m2 # {} THEN HoursRangeAt(line, Least(m2))
     ELSE IF ms # {} /\ me # {}
          THEN [ok |-> TRUE, start |-> StartAt(line, Least(ms)).time,
                end |-> StopAt(line, Least(me)).time]
     ELSE NoTimes

\* parseTimeToMinutes of a normalized time string
parseTimeToMinutes(timeStr) == IF timeStr.k = "time" THEN Num(timeStr.v) ELSE Null

\* totalHours in minutes: Math.round((minutes / 60) * 100) / 100 hours, which is
\* minutes / 60 exactly because minutes is a multiple of 15
computeHoursFromTimes(start, end) ==
  LET s == parseTimeToMinutes(start)
      e == parseTimeToMinutes(end)
      minutes == IF e.v - s.v < 0 THEN e.v - s.v + 24 * 60 ELSE e.v - s.v
  IN IF s.k = "null" \/ e.k = "null" THEN Num(0)
     ELSE Num((Round(roundToNearestQuarterMinutes(minutes) * 100, 60) * 60) \div 100)

\* [0-9]+(?:\.[0-9]{1,2})? starting in atom i, in cents (parseFloat * 100)
AmountAt(line, i) ==
  LET ok == i <= Len(line) /\ line[i].t = "num"
      frac == /\ ok /\ i + 2 <= Len(line)
              /\ IsPunct(line, i + 1, {"."}) /\ Glued(line, i + 1)
              /\ line[i + 2].t = "num" /\ Glued(line, i + 2)
      cents == IF ~frac THEN 0
               ELSE IF Len(line[i + 2].s) = 1 THEN line[i + 2].n * 10
               ELSE FirstTwo(line[i + 2])
  IN [ok |-> ok, value |-> IF ok THEN line[i].n * 100 + cents ELSE 0]

MoneyKeywords ==
  {"gas", "materials", "material", "helper", "paid", "cost", "charge", "fee"}

\* the index of the first atom after the colons that follow atom i
RECURSIVE SkipColons(_, _)
SkipColons(line, i) ==
  IF IsPunct(line, i, {":"}) THEN SkipColons(line, i + 1) ELSE i

\* (?:gas|...|fee)[:\s]*\$?\s*([0-9]+(?:\.[0-9]{1,2})?) with the keyword at atom i
KeywordAmountAt(line, i) ==
  LET j == SkipColons(line, i + 1)
      k == IF IsPunct(line, j, {"$"}) THEN j + 1 ELSE j
  IN [ok |-> /\ line[i].t = "word" /\ line[i].s \in MoneyKeywords
             /\ AmountAt(line, k).ok,
      value |-> AmountAt(line, k).value]

\* lines 122-134; the candidate of the keyword pattern is digits with an
\* optional fraction, so the H:MM test of line 130 never rejects it
findMoney(line) ==
  LET mDollar == {i \in DOMAIN line :
                    IsPunct(line, i, {"$"}) /\ AmountAt(line, i + 1).ok}
      mKeyword == {i \in DOMAIN line : KeywordAmountAt(line, i).ok}
  IN IF mDollar # {} THEN Num(AmountAt(line, Least(mDollar) + 1).value)
     ELSE IF mKeyword # {} THEN Num(KeywordAmountAt(line, Least(mKeyword)).value)
     ELSE Null

\* helper\s*(?:[:\-]?\s*)?(\d+(?:\.\d+)?) with "helper" at atom i: the atoms of
\* the number
HelperAt(line, i) ==
  LET j == IF IsPunct(line, i + 1, {":", "-"}) THEN i + 2 ELSE i + 1
      ok == /\ line[i].t = "word" /\ line[i].s = "helper"
            /\ j <= Len(line) /\ line[j].t = "num"
      frac == /\ ok /\ j + 2 <= Len(line)
              /\ IsPunct(line, j + 1, {"."}) /\ Glued(line, j + 1)
              /\ line[j + 2].t = "num" /\ Glued(line, j + 2)
  IN [ok |-> ok,
      number |-> IF ~ok THEN <<>>
                 ELSE IF frac /\ line[j + 2].n # 0
                      THEN <<Trim(<<line[j]>>)[1], line[j + 1], line[j + 2]>>
                 ELSE Trim(<<line[j]>>),
      nonzero |-> ok /\ (line[j].n # 0 \/ (frac /\ line[j + 2].n # 0))]

\* the atoms of the number found by findHelperHours, <<>> when it returns null
\* or 0 (both are falsy where the result is used)
findHelperHours(line) ==
  LET m == {i \in DOMAIN line : HelperAt(line, i).ok}
  IN IF m # {} /\ HelperAt(line, Least(m)).nonzero
     THEN HelperAt(line, Least(m)).number ELSE <<>>

\* `helper ${helperH}hrs. `
HelperNote(number) ==
  <<W("helper")>> \o [number EXCEPT ![1].sp = TRUE] \o <<W("hrs"), P(".")>>

\* the calendar: day 0 is Sunday 2025-12-21; a date string outside the
\* modelled weeks is kept as [k |-> "bad"]
IsoDay(yy, mm, dd) ==
  IF yy = 2025 /\ mm = 12 /\ dd \in 21..31 THEN D(dd - 21)
  ELSE IF yy = 2026 /\ mm = 1 /\ dd \in 1..10 THEN D(dd + 10)
  ELSE [k |-> "bad", v |-> 0]

\* new Date().getFullYear() on local day now
FullYear(now) == IF now <= 10 THEN 2025 ELSE 2026

\* lines 37-38 and parseMmDdToIso: MM/DD/YY[YY] starting in atom i
NumericDateAt(line, i) ==
  LET ok == /\ i + 4 <= Len(line)
            /\ line[i].t = "num" /\ Len(line[i].s) <= 2 /\ BoundaryBefore(line, i)
            /\ IsPunct(line, i + 1, {"/", "-"}) /\ Glued(line, i + 1)
            /\ line[i + 2].t = "num" /\ Len(line[i + 2].s) <= 2 /\ Glued(line, i + 2)
            /\ IsPunct(line, i + 3, {"/", "-"}) /\ Glued(line, i + 3)
            /\ line[i + 4].t = "num" /\ Glued(line, i + 4)
            /\ Len(line[i + 4].s) \in 2..4 /\ BoundaryAfter(line, i + 4)
      yy == IF Len(line[i + 4].s) = 2 THEN 2000 + line[i + 4].n ELSE line[i + 4].n
  IN [ok |-> ok,
      date |-> IF ok THEN IsoDay(yy, line[i].n, line[i + 2].n) ELSE Null]

\* the month a word names by its first three letters, 0 when it names none
MonthOf(w) ==
  CASE w \in {"dec", "Dec", "december", "December"} -> 12
    [] w \in {"jan", "Jan", "january", "January"} -> 1
    [] OTHER -> 0

\* lines 40-47: Month DD[, YYYY] with the month word at atom i
MonthDateAt(line, i, now) ==
  LET dot == IF IsPunct(line, i + 1, {"."}) /\ Glued(line, i + 1) THEN 1 ELSE 0
      d == i + 1 + dot
      ok == /\ line[i].t = "word" /\ MonthOf(line[i].s) # 0
            /\ d <= Len(line) /\ line[d].t = "num" /\ line[d].sp
      comma == IF ok /\ IsPunct(line, d + 1, {","}) /\ Glued(line, d + 1) THEN 1 ELSE 0
      y == d + 1 + comma
      year == ok /\ Len(line[d].s) <= 2 /\ y <= Len(line) /\ line[y].t = "num"
                 /\ Len(line[y].s) >= 4 /\ (comma = 1 \/ line[y].sp)
      yy == IF year THEN line[y].n \div (10 ^ (Len(line[y].s) - 4)) ELSE FullYear(now)
      dd == IF Len(line[d].s) <= 2 THEN line[d].n ELSE FirstTwo(line[d])
  IN [ok |-> ok,
      date |-> IF ok THEN IsoDay(yy, MonthOf(line[i].s), dd) ELSE Null]

\* a word of the weekday pattern standing between two \b
IsWeekdayAt(line, i) ==
  /\ line[i].t = "word" /\ line[i].s \in WeekdayNames
  /\ BoundaryBefore(line, i) /\ BoundaryAfter(line, i)

\* lines 35-55; now is the local day on which the parser runs
findDate(line, now, off) ==
  LET m1 == {i \in DOMAIN line : NumericDateAt(line, i).ok}
      m2 == {i \in DOMAIN line : MonthDateAt(line, i, now).ok}
      wd == {i \in DOMAIN line : IsWeekdayAt(line, i)}
  IN IF m1 # {} THEN NumericDateAt(line, Least(m1)).date
     ELSE IF m2 # {} THEN MonthDateAt(line, Least(m2), now).date
     ELSE IF wd # {} THEN isoForWeekday(line[Least(wd)].s, now, off)
     ELSE Null

\* lines 114-120, on a trimmed line
isTimeOnly(line) ==
  \/ Len(line) = 1 /\ IsAmPm(line, 1)
  \/ Len(line) = 2 /\ IsAmPm(line, 1) /\ IsPunct(line, 2, {"."}) /\ Glued(line, 2)
  \/ /\ Len(line) \in {3, 4}
     /\ line[1].t = "num" /\ Len(line[1].s) <= 2
     /\ IsPunct(line, 2, {":"}) /\ Glued(line, 2)
     /\ line[3].t = "num" /\ Len(line[3].s) = 2 /\ Glued(line, 3)
     /\ (Len(line) = 4 => IsAmPm(line, 4))
  \/ /\ Len(line) = 2
     /\ line[1].t = "num" /\ Len(line[1].s) <= 2
     /\ IsAmPm(line, 2)

\* the run of digits that follows atom j after at most one of [-.\s], 0 when
\* there is none
NextRun(line, j) ==
  IF j + 1 <= Len(line) /\ line[j + 1].t = "num" /\ line[j + 1].sp THEN j + 1
  ELSE IF /\ j + 2 <= Len(line)
          /\ IsPunct(line, j + 1, {"-", "."}) /\ Glued(line, j + 1)
          /\ line[j + 2].t = "num" /\ Glued(line, j + 2)
       THEN j + 2
  ELSE 0

Digits(line, i) == IF i \in DOMAIN line /\ line[i].t = "num" THEN Len(line[i].s) ELSE 0

\* \d{3}[-.\s]?\d{4} taken from the run k on (the run may hold both groups)
PhoneTail(line, k) ==
  \/ Digits(line, k) >= 7
  \/ Digits(line, k) = 3 /\ Digits(line, NextRun(line, k)) >= 4

\* lines 143-146: the pattern matches anywhere in the line, digit groups of
\* 3, 3 and 4 each followed by at most one separator
looksLikePhone(line) ==
  \E i \in DOMAIN line :
    \/ Digits(line, i) >= 10
    \/ Digits(line, i) >= 6 /\ Digits(line, NextRun(line, i)) >= 4
    \/ Digits(line, i) >= 3 /\ PhoneTail(line, NextRun(line, i))
    \/ /\ IsPunct(line, i, {"("})
       /\ Digits(line, i + 1) = 3 /\ Glued(line, i + 1)
       /\ IsPunct(line, i + 2, {")"}) /\ Glued(line, i + 2)
       /\ \/ Glued(line, i + 3) /\ PhoneTail(line, i + 3)
          \/ PhoneTail(line, NextRun(line, i + 2))

StreetWords ==
  {"St", "Street", "Ave", "Avenue", "Rd", "Road", "Blvd", "Drive", "Dr",
   "Market", "Spring", "Lane", "Ln", "Court", "Ct", "Way", "Place", "Terrace",
   "Terr", "st", "street", "ave", "avenue", "rd", "road", "way", "place"}

\* characters of [A-Za-z0-9\.\- ]
InClass(a) == IsWordChar(a) \/ (a.t = "punct" /\ a.s \in {".", "-"})
CharLen(a) == IF IsWordChar(a) THEN Len(a.s) ELSE 1

\* [A-Za-z0-9\.\- ]{3,}\b from atom j on, count characters of the class being
\* matched before atom j: the match can end at a \b that has at least three
\* characters before it
RECURSIVE ClassRun(_, _, _)
ClassRun(line, j, count) ==
  IF j > Len(line) \/ ~InClass(line[j]) THEN FALSE
  ELSE \/ IsWordChar(line[j]) /\ count >= 3 /\ BoundaryBefore(line, j)
       \/ IsWordChar(line[j]) /\ count + CharLen(line[j]) >= 3 /\ BoundaryAfter(line, j)
       \/ ClassRun(line, j + 1,
                   count + CharLen(line[j])
                     + (IF j + 1 <= Len(line) /\ line[j + 1].sp THEN 1 ELSE 0))

\* \b\d{1,5}\s+[A-Za-z0-9\.\- ]{3,}\b (line 154)
NumberThenText(line) ==
  \E i \in DOMAIN line :
    /\ line[i].t = "num"
    /\ Len(line[i].s) <= 5 /\ BoundaryBefore(line, i)
    /\ i + 1 <= Len(line) /\ line[i + 1].sp
    /\ ClassRun(line, i + 1, 0)

\* lines 148-159: the trimmed line, or <<>> for null
findAddressCandidate(line) ==
  IF line = <<>> \/ isTimeOnly(line) THEN <<>>
  ELSE IF \E i \in DOMAIN line :
            /\ line[i].t = "word" /\ line[i].s \in StreetWords
            /\ BoundaryBefore(line, i) /\ BoundaryAfter(line, i)
       THEN Trim(line)
  ELSE IF NumberThenText(line) /\ ~(Len(line) = 1 /\ line[1].t = "num")
       THEN Trim(line)
  ELSE IF looksLikePhone(line) THEN Trim(line)
  ELSE <<>>

\* ---- strings built by concatenation: the atoms and whether white space ends
\* the string
Text(a, tail) == [a |-> a, tail |-> tail]
Empty == Text(<<>>, FALSE)
NonEmpty(x) == x.a # <<>> \/ x.tail

\* two runs of the same kind written without white space between them are
\* one run
Fuse(a, b) ==
  [t |-> a.t, s |-> a.s \o b.s, sp |-> a.sp,
   n |-> IF a.t = "num" THEN a.n * (10 ^ Len(b.s)) + b.n ELSE 0]

\* x + line (+ ' ' when tail)
Cat(x, line, tail) ==
  IF line = <<>> THEN Text(x.a, x.tail \/ tail)
  ELSE IF x.a = <<>> THEN Text([line EXCEPT ![1].sp = x.tail], tail)
  ELSE IF x.tail THEN Text(x.a \o [line EXCEPT ![1].sp = TRUE], tail)
  ELSE LET z == x.a[Len(x.a)]
       IN IF IsWordChar(z) /\ z.t = line[1].t
          THEN Text(SubSeq(x.a, 1, Len(x.a) - 1) \o <<Fuse(z, line[1])>>
                      \o Tail(line), tail)
          ELSE Text(x.a \o line, tail)

\* line.split(':').slice(1).join(':').trim()
After(line) ==
  LET colons == {i \in DOMAIN line : IsPunct(line, i, {":"})}
  IN IF colons = {} THEN <<>>
     ELSE Trim(SubSeq(line, Least(colons) + 1, Len(line)))

\* e.notes.split(/\s{2,}|\r?\n|(?<=\.)\s+/).map(trim).filter(Boolean): the
\* notes hold single spaces only, so the pieces end after a "." that white
\* space follows
RECURSIVE NoteLines(_)
NoteLines(a) ==
  LET cut == {i \in DOMAIN a : i < Len(a) /\ IsPunct(a, i, {"."}) /\ a[i + 1].sp}
  IN IF a = <<>> THEN <<>>
     ELSE IF cut = {} THEN <<Trim(a)>>
     ELSE <<Trim(SubSeq(a, 1, Least(cut)))>>
            \o NoteLines(SubSeq(a, Least(cut) + 1, Len(a)))

\* ---- parseTextToEntries
Entry(worker, date, address, start, end, materials, notes) ==
  [worker |-> worker, date |-> date, address |-> address, start |-> start,
   end |-> end, totalHours |-> Null, materials |-> materials, notes |-> notes]

\* x || null for a number
OrNull(x) == IF Truthy(x) THEN x ELSE Null

\* lines 198 and 214: if (helperH) notes += `helper ${helperH}hrs. `
Helped(x, helperH) ==
  IF helperH # <<>> THEN Cat(x, HelperNote(helperH), TRUE) ELSE x

\* the merge with the line's date taken whenever the line has one
Merge_LastDate(c, line, date, times, money, helperH, addressCand) ==
  [c EXCEPT
     !.date = IF StrTruthy(date) THEN date ELSE @,
     !.address = IF c.address = <<>> THEN addressCand ELSE @,
     !.start = IF ~StrTruthy(c.start) /\ times.ok THEN times.start ELSE @,
     !.end = IF ~StrTruthy(c.start) /\ times.ok THEN times.end ELSE @,
     !.materials = IF ~Truthy(c.materials) /\ Truthy(money) THEN money ELSE @,
     !.notes = Cat(Helped(c.notes, helperH), line, TRUE)]

\* lines 209-215: the line is merged into the open entry c
Merge(c, line, date, times, money, helperH, addressCand) ==
  [c EXCEPT
     !.date = IF ~StrTruthy(c.date) THEN date ELSE @,
     !.address = IF c.address = <<>> THEN addressCand ELSE @,
     !.start = IF ~StrTruthy(c.start) /\ times.ok THEN times.start ELSE @,
     !.end = IF ~StrTruthy(c.start) /\ times.ok THEN times.end ELSE @,
     !.materials = IF ~Truthy(c.materials) /\ Truthy(money) THEN money ELSE @,
     !.notes = Cat(Helped(c.notes, helperH), line, TRUE)]

\* every line opens an entry
Opens_AnyLine(worker, date, times, money, addressCand) == TRUE

\* line 217: with no entry open, the line opens one
Opens(worker, date, times, money, addressCand) ==
  addressCand # <<>> \/ StrTruthy(date) \/ times.ok \/ Truthy(money) \/ worker # ""

\* lines 193-220: what one turn of the loop does with the line's worker, date,
\* times, money, helperH and addressCand; cur is the entry being built (<<>>
\* for null), pushed is what the turn appends to entries
Segment(line, cur, worker, date, times, money, helperH, addressCand) ==
  IF worker # "" /\ \E i \in DOMAIN line : IsPunct(line, i, {":"})
  THEN [pushed |-> cur,
        current |-> <<Entry(worker, date, <<>>, times.start, times.end,
                            OrNull(money),
                            Cat(Helped(Empty, helperH), After(line), After(line) # <<>>))>>]
  ELSE IF cur = <<>> /\ times.ok
  THEN [pushed |-> <<>>,
        current |-> <<Entry("", date, <<>>, times.start, times.end, Null, Empty)>>]
  ELSE IF cur # <<>>
  THEN [pushed |-> <<>>,
        current |-> <<Merge(cur[1], line, date, times, money, helperH, addressCand)>>]
  ELSE IF Opens(worker, date, times, money, addressCand)
  THEN [pushed |-> <<>>,
        current |-> <<Entry(worker, date, addressCand, times.start, times.end,
                            OrNull(money), Text(line, FALSE))>>]
  ELSE [pushed |-> <<>>, current |-> <<>>]

\* lines 182-191: one turn of the loop
ScanLine(line, cur, now, off) ==
  Segment(line, cur, findWorker(line), findDate(line, now, off), findTimes(line),
          findMoney(line), findHelperHours(line), findAddressCandidate(line))

\* the first note line that is an address candidate, <<>> when none is
RECURSIVE FirstCandidate(_)
FirstCandidate(noteLines) ==
  IF noteLines = <<>> THEN <<>>
  ELSE IF findAddressCandidate(Head(noteLines)) # <<>>
       THEN findAddressCandidate(Head(noteLines))
  ELSE FirstCandidate(Tail(noteLines))

\* new Date().toISOString().slice(0,10) at minute tod of local day now
UtcDate(now, tod, off) == D((now * 1440 + tod - off) \div 1440)

\* the normalizer with the processing date tried before the weekday of the notes
NormalizeEntry_TodayFirst(e, now, tod, off) ==
  LET hasNotes == NonEmpty(e.notes)
      address == IF e.address = <<>> /\ hasNotes
                 THEN FirstCandidate(NoteLines(e.notes.a)) ELSE e.address
      wd == {i \in DOMAIN e.notes.a : IsWeekdayAt(e.notes.a, i)}
      timed == StrTruthy(e.start) /\ StrTruthy(e.end)
      date1 == IF ~StrTruthy(e.date) /\ timed THEN UtcDate(now, tod, off) ELSE e.date
      date2 == IF ~StrTruthy(date1) /\ hasNotes /\ wd # {}
               THEN isoForWeekday(e.notes.a[Least(wd)].s, now, off) ELSE date1
      m == findMoney(e.notes.a)
      materials == IF ~Truthy(e.materials) /\ hasNotes /\ Truthy(m) THEN m
                   ELSE e.materials
      totalHours == IF ~Truthy(e.totalHours) /\ timed
                    THEN computeHoursFromTimes(e.start, e.end) ELSE e.totalHours
  IN [e EXCEPT !.address = address, !.date = date2, !.materials = materials,
               !.totalHours = totalHours]

\* lines 225-251 for one entry
NormalizeEntry(e, now, tod, off) ==
  LET hasNotes == NonEmpty(e.notes)
      address == IF e.address = <<>> /\ hasNotes
                 THEN FirstCandidate(NoteLines(e.notes.a)) ELSE e.address
      wd == {i \in DOMAIN e.notes.a : IsWeekdayAt(e.notes.a, i)}
      date1 == IF ~StrTruthy(e.date) /\ hasNotes /\ wd # {}
               THEN isoForWeekday(e.notes.a[Least(wd)].s, now, off) ELSE e.date
      timed == StrTruthy(e.start) /\ StrTruthy(e.end)
      date2 == IF ~StrTruthy(date1) /\ timed THEN UtcDate(now, tod, off) ELSE date1
      m == findMoney(e.notes.a)
      materials == IF ~Truthy(e.materials) /\ hasNotes /\ Truthy(m) THEN m
                   ELSE e.materials
      totalHours == IF ~Truthy(e.totalHours) /\ timed
                    THEN computeHoursFromTimes(e.start, e.end) ELSE e.totalHours
  IN [e EXCEPT !.address = address, !.date = date2, !.materials = materials,
               !.totalHours = totalHours]

\* ---- the text the parser is given, line by line
ExampleLine ==
  <<W("Jose"), P(":"), Sp(N("1513", 1513)), Sp(W("Lafayette")),
    Sp(N("9", 9)), P(":"), N("00", 0), Sp(W("AM")), Sp(P("-")),
    Sp(N("5", 5)), P(":"), N("30", 30), Sp(W("PM")),
    Sp(W("Checked")), Sp(W("water")), Sp(W("pressure")), Sp(P("$")), N("10", 10)>>

Lines ==
  {ExampleLine,
   <<W("Chris"), P(":"), Sp(N("10", 10)), P(":"), N("00", 0), Sp(W("PM")),
     Sp(P("-")), Sp(N("2", 2)), P(":"), N("00", 0), Sp(W("AM"))>>,
   <<W("Myer"), P(":"), Sp(N("30", 30)), P(":"), N("00", 0), Sp(P("-")),
     Sp(N("1", 1)), P(":"), N("00", 0)>>,
   <<N("9", 9), P(":"), N("00", 0), Sp(P("-")), Sp(N("9", 9)), P(":"), N("07", 7)>>,
   <<N("1513", 1513), Sp(W("Lafayette")), Sp(W("St"))>>,
   <<W("saturday")>>,
   <<N("12", 12), P("/"), N("29", 29), P("/"), N("25", 25)>>,
   <<W("helper"), Sp(N("3", 3)), Sp(W("hrs"))>>,
   <<W("gas"), Sp(P("$")), N("20", 20), P("."), N("5", 5)>>,
   <<W("fixed"), Sp(W("sink")), P("."), Sp(N("40", 40)), Sp(W("Elm"))>>,
   <<W("thanks")>>,
   <<W("Jos"), P("é"), P(":"), Sp(W("fixed")), Sp(W("sink"))>>,
   <<N("12", 12), Sp(W("Oak")), Sp(W("St")), Sp(W("s"))>>,
   <<W("at"), Sp(N("9", 9)), P(":"), N("00", 0), Sp(P("-")), Sp(N("9", 9)), P(":"),
     N("07", 7)>>,
   <<W("gas"), Sp(N("9", 9)), P(":"), N("00", 0)>>}

MaxLines == 2
TimesOfDay == {0, 720, 1439}

InitParse ==
  /\ procOff \in ProcOffsets
  /\ envTZ = FALSE
  /\ today \in {6, 8}
  /\ PayIdle
  /\ WdIdle
  /\ AllocIdle
  /\ ParseIdle
  /\ ServerIdle

\* the caller writes one more line of the text
AddLine ==
  /\ pcP = "input"
  /\ Len(lines) < MaxLines
  /\ \E line \in Lines : lines' = Append(lines, line)
  /\ UNCHANGED <<serverVars, env, allocVars, payVars, wdVars, li, current, parsed, pcP>>

\* parseTextToEntries(text) is called (lines 175-179)
Parse ==
  /\ pcP = "input"
  /\ pcP' = "scan"
  /\ li' = 1
  /\ current' = <<>>
  /\ parsed' = <<>>
  /\ UNCHANGED <<serverVars, env, allocVars, payVars, wdVars, lines>>

\* one turn of the loop of lines 181-221
ScanStep ==
  /\ pcP = "scan"
  /\ li <= Len(lines)
  /\ LET r == ScanLine(lines[li], current, today, procOff)
     IN /\ parsed' = parsed \o r.pushed
        /\ current' = r.current
  /\ li' = li + 1
  /\ UNCHANGED <<serverVars, env, allocVars, payVars, wdVars, lines, pcP>>

\* lines 223-253: the last entry is pushed, every entry is normalized, the
\* array is returned
Normalize ==
  /\ pcP = "scan"
  /\ li > Len(lines)
  /\ \E tod \in TimesOfDay :
       parsed' = [k \in DOMAIN (parsed \o current) |->
                    NormalizeEntry((parsed \o current)[k], today, tod, procOff)]
  /\ current' = <<>>
  /\ pcP' = "done"
  /\ UNCHANGED <<serverVars, env, allocVars, payVars, wdVars, lines, li>>

NextParse == AddLine \/ Parse \/ ScanStep \/ Normalize

SpecParse == InitParse /\ [][NextParse]_vars

\* ---- the entries the allocator is called with
Row(worker, date, address, start, end, totalHours, notes) ==
  [worker |-> worker, date |-> date, address |-> address, start |-> start,
   end |-> end, totalHours |-> totalHours, notes |-> notes,
   materials |-> Null]

Rows ==
  {Row("Jose", D(8), "12 Oak", Null, Null, Null, {}),
   [Row("Jose", D(8), "40 Elm", Null, Null, Null, {"install"})
      EXCEPT !.materials = Num(1000)],
   Row("Jose", D(8), "7 Pine", Null, Null, Num(240), {}),
   Row("Jose", D(8), "9 Ash", T(540), T(780), Num(240), {"total"}),
   Row("Jose", D(8), "2 Yew", Null, Null, Num(120), {}),
   Row("Jose", D(8), "3 Fir", T(540), T(1020), Null, {}),
   Row("Jose", D(8), "5 Bay", T(1320), T(120), Null, {"leaking"}),
   Row("Jose", Null, "12 Oak", Null, Null, Null, {}),
   Row("Jose", Null, "3 Fir", T(540), T(1020), Null, {}),
   Row("Chris", D(8), "12 Oak", Null, Null, Null, {"install", "leaking"})}

\* ---- allocateTimesAcrossAddresses as a state machine
InitAlloc ==
  /\ procOff \in {NewYork, 0}
  /\ envTZ = FALSE
  /\ today = 0
  /\ PayIdle
  /\ WdIdle
  /\ ParseIdle
  /\ ServerIdle
  /\ entries = <<>>
  /\ apiKey \in BOOLEAN
  /\ pcA = "input"
  /\ groups = <<>>
  /\ gi = 0
  /\ durations = <<>>
  /\ out = <<>>
  /\ allocLog = <<>>
  /\ replies = <<>>
  /\ emitLog = <<>>

\* the caller builds the entries argument
AddEntry ==
  /\ pcA = "input"
  /\ Len(entries) < MaxRows
  /\ \E r \in Rows : entries' = Append(entries, r)
  /\ UNCHANGED <<serverVars, env, payVars, wdVars, parseVars, apiKey, pcA, groups, gi, durations, out, allocLog, replies, emitLog>>

\* lines 87-100: the call, up to the group loop
Call ==
  /\ pcA = "input"
  /\ groups' = GroupsOf(entries, <<>>)
  /\ gi' = 1
  /\ pcA' = IF entries = <<>> THEN "done" ELSE "loop"
  /\ UNCHANGED <<serverVars, env, payVars, wdVars, parseVars, entries, apiKey, durations, out, allocLog, replies, emitLog>>

\* the catch returning the durations gathered before the failure
OnThrow_KeepPartial(got) == [ok |-> TRUE, d |-> got]

\* lines 59-62: the catch of getDurationsBetweenAddresses returns null,
\* whatever durations hold by then
OnThrow(got) == NoTravel

\* what the group pushed, for the histories
Emitted(g, rows, travel) ==
  [worker |-> g.worker, date |-> g.date, rows |-> rows, travel |-> travel]

\* lines 239-240 and the loop's advance, after travelDurations is known; rs are
\* the provider's answers for the group
FinishGroup(g, travel, rs) ==
  LET a == AllocateGroup(g, travel, procOff)
  IN /\ out' = out \o a.fixed \o a.targets
     /\ allocLog' = Append(allocLog,
                           a @@ [group |-> gi, key |-> apiKey, replies |-> rs])
     /\ emitLog' = Append(emitLog, Emitted(g, a.fixed \o a.targets, travel))
     /\ gi' = gi + 1
     /\ pcA' = IF gi + 1 > Len(groups) THEN "done" ELSE "loop"
     /\ durations' = <<>>
     /\ replies' = <<>>

\* lines 102-186: one iteration of the group loop, up to its first await
GroupStep ==
  /\ pcA = "loop"
  /\ LET g == groups[gi]
     IN IF GroupPath(g, procOff) # "allocate"
        THEN /\ out' = out \o PassGroup(g, procOff)
             /\ emitLog' = Append(emitLog, Emitted(g, PassGroup(g, procOff), NoTravel))
             /\ gi' = gi + 1
             /\ pcA' = IF gi + 1 > Len(groups) THEN "done" ELSE "loop"
             /\ UNCHANGED <<durations, allocLog, replies>>
        ELSE IF AsksProvider(apiKey, g)
        THEN /\ pcA' = "await"
             /\ durations' = <<>>
             /\ UNCHANGED <<gi, out, allocLog, replies, emitLog>>
        ELSE FinishGroup(g, NoTravel, <<>>)
  /\ UNCHANGED <<serverVars, env, payVars, wdVars, parseVars, entries, apiKey, groups>>

\* lines 36-62: one axios.get settles; the last one resumes the allocation
ProviderReply ==
  /\ pcA = "await"
  /\ \E resp \in Responses :
       LET g == groups[gi]
           got == Append(durations, PairMinutes(resp))
           rs == Append(replies, resp)
       IN IF resp.kind = "throw" THEN FinishGroup(g, OnThrow(durations), rs)
          ELSE IF Len(got) = Len(Targets(g.rows)) - 1
          THEN FinishGroup(g, [ok |-> TRUE, d |-> got], rs)
          ELSE /\ durations' = got
               /\ replies' = rs
               /\ UNCHANGED <<pcA, gi, out, allocLog, emitLog>>
  /\ UNCHANGED <<serverVars, env, payVars, wdVars, parseVars, entries, apiKey, groups>>

NextAlloc == AddEntry \/ Call \/ GroupStep \/ ProviderReply

SpecAlloc == InitAlloc /\ [][NextAlloc]_vars

\* ------------------------------------------------- server/index.js, lines 47-135
\* parseTextToEntries(text) as one call: the loop of lines 181-221 ...
RECURSIVE ScanAll(_, _, _, _, _, _)
ScanAll(ls, k, cur, acc, now, off) ==
  IF k > Len(ls) THEN acc \o cur
  ELSE ScanAll(ls, k + 1, ScanLine(ls[k], cur, now, off).current,
               acc \o ScanLine(ls[k], cur, now, off).pushed, now, off)

\* ... and the normalization of lines 225-251
parseTextToEntries(ls, now, tod, off) ==
  [k \in DOMAIN ScanAll(ls, 1, <<>>, <<>>, now, off) |->
     NormalizeEntry(ScanAll(ls, 1, <<>>, <<>>, now, off)[k], now, tod, off)]

\* an entry as the allocation engine reads it: its notes and address are
\* looked at only through the words complexityWeight searches
NoteWords(e) ==
  [e EXCEPT !.notes = {e.notes.a[i].s : i \in {j \in DOMAIN e.notes.a :
                                                e.notes.a[j].t = "word"}}
                        \cup {e.address[i].s : i \in {j \in DOMAIN e.address :
                                                       e.address[j].t = "word"}}]

\* allocateTimesAcrossAddresses(entries, null, { tz }): the server runs without
\* GOOGLE_MAPS_API_KEY, so no group asks the provider
RECURSIVE AllocateNoKey(_, _)
AllocateNoKey(gs, off) ==
  IF gs = <<>> THEN <<>>
  ELSE (IF GroupPath(Head(gs), off) # "allocate" THEN PassGroup(Head(gs), off)
        ELSE AllocateGroup(Head(gs), NoTravel, off).fixed
               \o AllocateGroup(Head(gs), NoTravel, off).targets)
         \o AllocateNoKey(Tail(gs), off)

allocateTimesAcrossAddresses(es, off) ==
  AllocateNoKey(GroupsOf([k \in DOMAIN es |-> NoteWords(es[k])], <<>>), off)

\* ---- req.body of a request to /api/parse/text
\* k = "nobody": no body was parsed; "missing": the body has no text property;
\* "num": text is the number 5; "str": text is a string with the lines ls, and
\* ws says that a string without lines still holds white space
Bodies ==
  [k : {"nobody", "missing", "num"}, ws : {FALSE}, ls : {<<>>}]
    \cup [k : {"str"}, ws : BOOLEAN, ls : {<<>>}]
    \cup [k : {"str"}, ws : {FALSE},
          ls : {<<<<W("Jose"), P(":"), Sp(N("12", 12)), Sp(W("Oak")), Sp(W("St"))>>,
                  <<W("Jose"), P(":"), Sp(N("40", 40)), Sp(W("Elm")),
                    Sp(W("install"))>>>>}]

\* a test of line 122 that lets the empty string through
TextGiven_NotMissing(t) == t.k # "missing"

\* lines 121-122: text = req.body.text || (req.file && ...) is truthy; the
\* route has no upload middleware, so req.file is undefined, and the text is
\* truthy for a number other than 0 and for a string of length > 0
TextGiven(t) == t.k = "num" \/ (t.k = "str" /\ (t.ws \/ t.ls # <<>>))

\* lines 120-127: the handler up to its await; the requests arrive at noon
\* (minute 720) of day today
ParseTextBegin(r) ==
  /\ reqs[r].pc = "none"
  /\ \E t \in Bodies, st \in {400, 500} :
       reqs' = [reqs EXCEPT ![r] =
         IF t.k = "nobody"
         THEN \* req.body is {} (status 400) or undefined (TypeError, status 500)
              [@ EXCEPT !.route = "text", !.pc = "done", !.text = t, !.status = st]
         ELSE IF ~TextGiven(t)
         THEN [@ EXCEPT !.route = "text", !.pc = "done", !.text = t, !.status = 400]
         ELSE IF t.k = "num"
         THEN \* text.split is not a function: the catch of line 131 answers
              [@ EXCEPT !.route = "text", !.pc = "done", !.text = t, !.status = 500,
                        !.ranParser = TRUE]
         ELSE [@ EXCEPT !.route = "text", !.pc = "await", !.text = t, !.ranParser = TRUE,
                        !.ranAllocator = TRUE,
                        !.entries = allocateTimesAcrossAddresses(
                           parseTextToEntries(t.ls, today, 720, procOff), procOff)]]
  /\ UNCHANGED <<env, allocVars, payVars, wdVars, parseVars, parsedDrafts, clock>>

\* lines 128-130: after the await the draft is stored and the answer sent
ParseTextEnd(r) ==
  /\ reqs[r].pc = "await" /\ reqs[r].route = "text"
  /\ parsedDrafts' = Append(parsedDrafts,
       [id |-> clock, timestamp |-> clock, entries |-> reqs[r].entries])
  /\ reqs' = [reqs EXCEPT ![r].pc = "done", ![r].status = 200,
                          ![r].draftId = clock]
  /\ UNCHANGED <<env, allocVars, payVars, wdVars, parseVars, clock>>

\* lines 67-107: POST /api/parse/ocr up to the await of the allocator. The
\* upload may be missing (400); the text recognition may fail (500), find no
\* text (500) or give the text of the picture
ParseOcrBegin(r) ==
  /\ reqs[r].pc = "none"
  /\ \E file \in BOOLEAN, ocr \in {"error", "empty", "text"} :
       reqs' = [reqs EXCEPT ![r] =
         IF ~file
         THEN [@ EXCEPT !.route = "ocr", !.pc = "done", !.status = 400]
         ELSE IF ocr # "text"
         THEN [@ EXCEPT !.route = "ocr", !.pc = "done", !.status = 500]
         ELSE [@ EXCEPT !.route = "ocr", !.pc = "await", !.ranParser = TRUE,
                        !.ranAllocator = TRUE,
                        !.entries = allocateTimesAcrossAddresses(
                           parseTextToEntries(<<ExampleLine>>, today, 720, procOff),
                           procOff)]]
  /\ UNCHANGED <<env, allocVars, payVars, wdVars, parseVars, parsedDrafts, clock>>

\* lines 109-111: the draft of an OCR request is stored and the answer sent
ParseOcrEnd(r) ==
  /\ reqs[r].pc = "await" /\ reqs[r].route = "ocr"
  /\ parsedDrafts' = Append(parsedDrafts,
       [id |-> clock, timestamp |-> clock, entries |-> reqs[r].entries])
  /\ reqs' = [reqs EXCEPT ![r].pc = "done", ![r].status = 200,
                          ![r].draftId = clock]
  /\ UNCHANGED <<env, allocVars, payVars, wdVars, parseVars, clock>>

\* lines 138-144: POST /api/preview up to the await. body.entries is missing,
\* a string (not an array), or an array of entries the client had from the
\* parser
PreviewBegin(r) ==
  /\ reqs[r].pc = "none"
  /\ \E b \in {"missing", "str", "array"} :
       reqs' = [reqs EXCEPT ![r] =
         IF b \in {"missing", "str"}
         THEN [@ EXCEPT !.route = "preview", !.pc = "done", !.status = 400]
         ELSE [@ EXCEPT !.route = "preview", !.pc = "await",
                        !.ranAllocator = TRUE,
                        !.entries = allocateTimesAcrossAddresses(
                           parseTextToEntries(
                             <<<<W("Jose"), P(":"), Sp(N("40", 40)), Sp(W("Elm")),
                                 Sp(W("install"))>>>>, today, 720, procOff),
                           procOff)]]
  /\ UNCHANGED <<env, allocVars, payVars, wdVars, parseVars, parsedDrafts, clock>>

\* lines 145-147: the draft of a preview request is stored and the answer sent
PreviewEnd(r) ==
  /\ reqs[r].pc = "await" /\ reqs[r].route = "preview"
  /\ parsedDrafts' = Append(parsedDrafts,
       [id |-> clock, timestamp |-> clock, entries |-> reqs[r].entries])
  /\ reqs' = [reqs EXCEPT ![r].pc = "done", ![r].status = 200,
                          ![r].draftId = clock]
  /\ UNCHANGED <<env, allocVars, payVars, wdVars, parseVars, clock>>

\* line 168: store.parsedDrafts.find(d => d.id === draftId), the index of the
\* first draft with that id, 0 when there is none
FindDraft(id) ==
  IF \E k \in DOMAIN parsedDrafts : parsedDrafts[k].id = id
  THEN CHOOSE k \in DOMAIN parsedDrafts :
         /\ parsedDrafts[k].id = id
         /\ \A m \in 1..(k - 1) : parsedDrafts[m].id # id
  ELSE 0

\* lines 163-201: POST /api/export by the caller of request r, with the draftId
\* of its answer (none when the answer had none). exported is the draft.entries
\* handed to generateWorkerExcel; exportStatus is 400, 404, or 200 for a draft
\* that was found (the answer is then 200 or 500, as the workbook is written
\* or not)
Export(r) ==
  /\ reqs[r].pc = "done"
  /\ reqs' = [reqs EXCEPT ![r] =
         IF reqs[r].draftId = -1
         THEN [@ EXCEPT !.pc = "exported", !.exportStatus = 400]
         ELSE IF FindDraft(reqs[r].draftId) = 0
         THEN [@ EXCEPT !.pc = "exported", !.exportStatus = 404]
         ELSE [@ EXCEPT !.pc = "exported", !.exportStatus = 200,
                        !.exported = parsedDrafts[FindDraft(reqs[r].draftId)].entries]]
  /\ UNCHANGED <<env, allocVars, payVars, wdVars, parseVars, parsedDrafts, clock>>

\* a millisecond passes
Tick ==
  /\ clock < MaxClock
  /\ clock' = clock + 1
  /\ UNCHANGED <<env, allocVars, payVars, wdVars, parseVars, parsedDrafts, reqs>>

InitServer ==
  /\ procOff \in {NewYork, 0}
  /\ envTZ = FALSE
  /\ today = 8
  /\ PayIdle
  /\ WdIdle
  /\ AllocIdle
  /\ ParseIdle
  /\ ServerIdle

NextServer ==
  \/ \E r \in 1..MaxReqs : ParseTextBegin(r)
  \/ \E r \in 1..MaxReqs : ParseTextEnd(r)
  \/ \E r \in 1..MaxReqs : ParseOcrBegin(r)
  \/ \E r \in 1..MaxReqs : ParseOcrEnd(r)
  \/ \E r \in 1..MaxReqs : PreviewBegin(r)
  \/ \E r \in 1..MaxReqs : PreviewEnd(r)
  \/ \E r \in 1..MaxReqs : Export(r)
  \/ Tick

SpecServer == InitServer /\ [][NextServer]_vars

\* ------------------------------------------------------------------ claims
HoursOf(rows) == SumSeq([i \in DOMAIN rows |-> rows[i].totalHours.v])
AllNumeric(rows) == \A i \in DOMAIN rows : rows[i].totalHours.k = "num"

\* (end - start) wrapped past midnight, rounded to the nearest 15 minutes
WrappedQuarter(start, end) == Round((end - start) % 1440, 15) * 15

\* C1: in every allocated group (with a usable date) the hours of the target
\* rows plus the hours of the fixed rows are at most the group's day-total plus
\* 15 minutes
C1_SumWithinDayTotal ==
  \A i \in DOMAIN allocLog :
    AllNumeric(allocLog[i].targets) =>
      HoursOf(allocLog[i].targets) + HoursOf(allocLog[i].fixed)
        <= allocLog[i].dayTotal + 15

\* C2: in every allocated group (with a usable date) each target starts no
\* earlier than the previous target started and no earlier than it ended
C2_StartsOrdered ==
  \A i \in DOMAIN allocLog :
    LET t == allocLog[i].targets
    IN \A j \in DOMAIN t :
         (j > 1 /\ t[j].start.k = "time") =>
           /\ t[j].start.v >= t[j - 1].start.v
           /\ t[j].start.v >= t[j - 1].end.v

\* C4: every emitted row with a date, a start and an end has totalHours equal
\* to the wrapped, quarter-rounded difference of its end and start
C4_HoursFromTimesWrap ==
  \A i \in DOMAIN out :
    (out[i].date.k = "date" /\ out[i].start.k = "time" /\ out[i].end.k = "time") =>
      out[i].totalHours = Num(WrappedQuarter(out[i].start.v, out[i].end.v))

\* C6: two targets of weights 2 and 1, no fixed row, no provider key, day-total
\* 8 h: 465 minutes are available, the shares are 310 and 155 minutes and the
\* first row gets 5.25 h (315 minutes)
C6_Case(a) ==
  /\ ~a.key
  /\ a.fixed = <<>>
  /\ Len(a.targets) = 2
  /\ a.dayTotal = 480
  /\ AllNumeric(a.targets)
  /\ complexityWeight(a.targets[1].notes) = 2
  /\ complexityWeight(a.targets[2].notes) = 1

C6_WeightedExample ==
  \A i \in DOMAIN allocLog :
    C6_Case(allocLog[i]) =>
      /\ allocLog[i].availableMinutes = 465
      /\ allocLog[i].serv = <<310, 155>>
      /\ allocLog[i].targets[1].totalHours = Num(315)

C6_Witness ==
  \E i \in DOMAIN allocLog :
    C6_Case(allocLog[i]) /\ allocLog[i].targets[1].totalHours = Num(315)

ValidTime(x) == x.k = "null" \/ (x.k = "time" /\ x.v >= 0 /\ x.v < 1440)

\* C10: every emitted start and end is absent or a valid HH:MM time of day, and
\* every totalHours written by allocation is a number
C10_ValidTimesAndHours ==
  /\ \A i \in DOMAIN out : ValidTime(out[i].start) /\ ValidTime(out[i].end)
  /\ \A i \in DOMAIN allocLog : AllNumeric(allocLog[i].targets)

\* the rate table and the premium rule as the claim states them
ClaimRate(worker) ==
  CASE worker \in {"Jose", "José"} -> 25
    [] worker = "Myer" -> 20
    [] worker \in {"Damian", "Chris"} -> 30
    [] OTHER -> 0

ClaimPay(row) ==
  LET hours == IF row.totalHours.k = "num" THEN row.totalHours.v ELSE 0
      premium ==
        /\ row.date.k = "date"
        /\ row.date.v % 7 \in {0, 6}
        /\ row.worker \in {"Jose", "José", "Chris", "Damian"}
  IN IF premium THEN Round(hours * ClaimRate(row.worker) * 150, 60)
     ELSE Round(hours * ClaimRate(row.worker) * 100, 60)

\* C8: the pay returned for a row is round-to-cents of hours * rate * m, with
\* m = 1.5 exactly when the row's date is a Saturday or Sunday and the worker
\* is premium-eligible
C8_PayFormula == pcPay = "done" => pay = ClaimPay(payRow)

\* C7: the date returned for a weekday name lies in today-6 .. today and falls
\* on the named weekday
C7_MostRecentWeekday ==
  pcWd = "done" =>
    /\ wdIso.k = "date"
    /\ today - 6 <= wdIso.v /\ wdIso.v <= today
    /\ wdIso.v % 7 = WEEKDAYS[WeekdayKey[wdName]]

\* C3: every entry parseTextToEntries returns with both start and end set has
\* totalHours equal to (end - start) mod 24 h rounded to the nearest quarter
\* of an hour (here in minutes), an end before the start wrapping past
\* midnight.
C3_HoursFromStartEnd ==
  pcP = "done" =>
    \A k \in DOMAIN parsed :
      StrTruthy(parsed[k].start) /\ StrTruthy(parsed[k].end) =>
        parsed[k].totalHours = Num(WrappedQuarter(parsed[k].start.v, parsed[k].end.v))

\* C5: the text made of the one line "Jose: 1513 Lafayette 9:00 AM - 5:30 PM
\* Checked water pressure $10" parses to exactly one entry with worker Jose,
\* address "1513 Lafayette", start 09:00, end 17:30, totalHours 8.5,
\* materials 10 and notes "Checked water pressure".
C5_ExampleEntry ==
  pcP = "done" /\ lines = <<ExampleLine>> =>
    /\ Len(parsed) = 1
    /\ parsed[1].worker = "Jose"
    /\ parsed[1].address = <<N("1513", 1513), Sp(W("Lafayette"))>>
    /\ parsed[1].start = T(9 * 60)
    /\ parsed[1].end = T(17 * 60 + 30)
    /\ parsed[1].totalHours = Num(8 * 60 + 30)
    /\ parsed[1].materials = Num(10 * 100)
    /\ parsed[1].notes.a = <<W("Checked"), Sp(W("water")), Sp(W("pressure"))>>

\* the flat 15 minutes after every target but the last
FlatTravel(n) == [i \in 1..n |-> IF i < n THEN 15 ELSE 0]

Threw(a) == \E i \in DOMAIN a.replies : a.replies[i].kind = "throw"

\* C11: a group for which a provider request threw is allocated and emitted
\* (the failure stops nothing: the loop has moved on past the group), with the
\* flat 15 minutes between consecutive targets and with the rows the same
\* group gets when no key is configured.
C11_FailureIsNoKey ==
  \A i \in DOMAIN allocLog :
    Threw(allocLog[i]) =>
      /\ allocLog[i].travel = FlatTravel(Len(allocLog[i].targets))
      /\ allocLog[i].targets =
           AllocateGroup(groups[allocLog[i].group], NoTravel, procOff).targets
      /\ allocLog[i].group < gi

C11_Witness ==
  \E i \in DOMAIN allocLog :
    /\ Threw(allocLog[i])
    /\ Len(allocLog[i].replies) = 2
    /\ allocLog[i].replies[1].kind = "ok" /\ allocLog[i].replies[1].secs = 400
    /\ allocLog[i].travel = FlatTravel(3)

\* the pair's minutes come from a duration the provider returned
ProviderPair(resp) ==
  resp.kind = "ok" \/ (resp.kind = "notok" /\ resp.secs # 0)

\* C12: the travel minutes of an allocated group are all-or-nothing: every
\* consecutive pair has the duration the provider returned for it, or every
\* pair has the flat 15 minutes.
C12_TravelAllOrNothing ==
  \A i \in DOMAIN allocLog :
    LET a == allocLog[i]
        n == Len(a.targets)
    IN \/ a.travel = FlatTravel(n)
       \/ /\ Len(a.replies) = n - 1
          /\ \A j \in DOMAIN a.replies :
               ProviderPair(a.replies[j]) /\ a.travel[j] = PairMinutes(a.replies[j])

\* the fields of a row that allocation leaves alone
Identity(r) ==
  [worker |-> r.worker, date |-> r.date, address |-> r.address,
   materials |-> r.materials, notes |-> r.notes]

Count(rows, x) == Cardinality({i \in DOMAIN rows : Identity(rows[i]) = x})

\* C13: when allocateTimesAcrossAddresses returns, its output holds exactly
\* one row for each input entry, with the entry's worker, date, address,
\* materials and notes.
C13_NoRowLostOrDoubled ==
  pcA = "done" =>
    /\ Len(out) = Len(entries)
    /\ \A i \in DOMAIN entries :
         Count(out, Identity(entries[i])) = Count(entries, Identity(entries[i]))

C13_Witness ==
  /\ pcA = "done"
  /\ Len(entries) = 3
  /\ Len(emitLog) = 2
  /\ \E i \in DOMAIN allocLog :
       Len(allocLog[i].fixed) = 1 /\ Len(allocLog[i].targets) = 1
  /\ \E i \in DOMAIN entries : entries[i].materials = Num(1000)

\* the entries of the input that belong to the group (worker, date), in input
\* order
OwnEntries(worker, date) ==
  SelectSeq(entries, LAMBDA e : WorkerKey(e) = worker /\ GroupDate(e) = date)

\* the rows a group made of rows alone emits, given the provider's answer
RowsAlone(g, travel) ==
  IF GroupPath(g, procOff) # "allocate" THEN PassGroup(g, procOff)
  ELSE AllocateGroup(g, travel, procOff).fixed
         \o AllocateGroup(g, travel, procOff).targets

RECURSIVE Flatten(_)
Flatten(log) == IF log = <<>> THEN <<>> ELSE Head(log).rows \o Flatten(Tail(log))

\* C14: the rows emitted for a (worker, date) group are those that the
\* group's own entries, the options and the provider's answers for the group
\* determine, whatever other entries the input holds; the output is these
\* groups' rows one group after the other.
C14_GroupsIndependent ==
  /\ out = Flatten(emitLog)
  /\ \A k \in DOMAIN emitLog :
       emitLog[k].rows =
         RowsAlone([worker |-> emitLog[k].worker, date |-> emitLog[k].date,
                    rows |-> OwnEntries(emitLog[k].worker, emitLog[k].date)],
                   emitLog[k].travel)

C14_Witness ==
  /\ pcA = "done"
  /\ Len(emitLog) = 2
  /\ Len(emitLog[1].rows) = 2
  /\ emitLog[1].travel.ok
  /\ entries[2].worker # entries[1].worker
  /\ entries[3].worker = entries[1].worker
\* C15: a request to /api/parse/text whose text is missing or the empty string
\* is answered with an error status in the step that receives it, neither the
\* parser nor the allocator has run for it, and the draft store holds exactly
\* one draft per request answered 200 (so none for it)
NoText(t) == t.k \in {"nobody", "missing"} \/ (t.k = "str" /\ ~t.ws /\ t.ls = <<>>)
C15_EmptyTextRejected ==
  /\ \A r \in DOMAIN reqs :
       reqs[r].route = "text" /\ NoText(reqs[r].text) =>
         /\ reqs[r].pc \in {"done", "exported"}
         /\ reqs[r].status \in {400, 500}
         /\ ~reqs[r].ranParser /\ ~reqs[r].ranAllocator
         /\ reqs[r].draftId = -1
  /\ Len(parsedDrafts) = Cardinality({r \in DOMAIN reqs : reqs[r].status = 200})

\* an empty-string request rejected while another request's draft was stored
C15_Witness ==
  /\ reqs[1].pc = "done" /\ reqs[1].text = [k |-> "str", ws |-> FALSE, ls |-> <<>>]
  /\ reqs[1].status = 400
  /\ reqs[2].status = 200 /\ Len(reqs[2].entries) = 2
  /\ Len(parsedDrafts) = 1

\* ---- the segmenter
\* the line spells one of the names of WORKERS as a whole word
NamedWorker(line) ==
  IF \E i \in DOMAIN line :
       line[i].t = "word" /\ line[i].s = "Jos" /\ IsPunct(line, i + 1, {"é"})
          /\ Glued(line, i + 1)
  THEN "José"
  ELSE IF \E i \in DOMAIN line :
            line[i].t = "word" /\ line[i].s \in {"Jose", "Damian", "Chris", "Myer"}
       THEN (CHOOSE w \in {"Jose", "Damian", "Chris", "Myer"} :
               \E i \in DOMAIN line : line[i].t = "word" /\ line[i].s = w)
       ELSE ""
HasColon(line) == \E i \in DOMAIN line : IsPunct(line, i, {":"})

\* the loop is about to take line li
AtLine == pcP = "scan" /\ li <= Len(lines) /\ li' = li + 1

\* C16: a turn of the loop on a line with a known worker name and a colon
\* appends the in-progress entry (if any) to the output as it stands and
\* opens a fresh entry with that worker, the date, time range and money of the
\* line, whose notes end with the text after the first colon
C16_Step ==
  AtLine /\ NamedWorker(lines[li]) # "" /\ HasColon(lines[li]) =>
    /\ parsed' = parsed \o current
    /\ current' # <<>>
    /\ current'[1].worker = NamedWorker(lines[li])
    /\ current'[1].date = findDate(lines[li], today, procOff)
    /\ current'[1].start = findTimes(lines[li]).start
    /\ current'[1].end = findTimes(lines[li]).end
    /\ current'[1].materials = OrNull(findMoney(lines[li]))
    /\ current'[1].address = <<>>
    /\ current'[1].notes =
         Cat(Helped(Empty, findHelperHours(lines[li])), After(lines[li]),
             After(lines[li]) # <<>>)
C16_WorkerColonOpensEntry == [][C16_Step]_vars

WorkerColon(line) == NamedWorker(line) # "" /\ HasColon(line)

\* the line carries a worker, a date, a time range, money or an address
Carries(line, now, off) ==
  \/ NamedWorker(line) # ""
  \/ StrTruthy(findDate(line, now, off))
  \/ findTimes(line).ok
  \/ Truthy(findMoney(line))
  \/ findAddressCandidate(line) # <<>>

\* the workers of the entries the claim expects for the lines ls, in order: one
\* entry for the first carrying line before the first worker-plus-colon line
\* (if there is one), then one per worker-plus-colon line
ExpectedWorkers(ls, now, off) ==
  LET wc == {i \in DOMAIN ls : WorkerColon(ls[i])}
      before == {i \in DOMAIN ls : (\A j \in wc : i < j) /\ Carries(ls[i], now, off)}
      named == SelectSeq(ls, WorkerColon)
  IN (IF before = {} THEN <<>> ELSE <<NamedWorker(ls[Least(before)])>>)
       \o [k \in DOMAIN named |-> NamedWorker(named[k])]

\* C17: after every turn of the loop and at the return, the entries pushed so
\* far followed by the open entry are, in order, exactly the entries opened:
\* one per worker-plus-colon line read, plus one in front if an earlier
\* carrying line opened an entry; at the return the open entry is flushed
C17_EveryEntryOnce ==
  pcP \in {"scan", "done"} =>
    /\ [k \in DOMAIN (parsed \o current) |-> (parsed \o current)[k].worker]
         = ExpectedWorkers(SubSeq(lines, 1, li - 1), today, procOff)
    /\ pcP = "done" => current = <<>>

\* fields of e that have a value and differ in f
Overwritten(e, f) ==
  \/ StrTruthy(e.date) /\ f.date # e.date
  \/ e.address # <<>> /\ f.address # e.address
  \/ StrTruthy(e.start) /\ f.start # e.start
  \/ StrTruthy(e.end) /\ f.end # e.end
  \/ Truthy(e.materials) /\ f.materials # e.materials

\* C18: in every step of the parser (a line merged into the open entry, an
\* entry pushed, the normalization before the return) an entry's date,
\* address, start, end and materials keep the value they already have
C18_Step ==
  pcP = "scan" =>
    \A k \in DOMAIN (parsed \o current) :
      /\ k \in DOMAIN (parsed' \o current')
      /\ ~Overwritten((parsed \o current)[k], (parsed' \o current')[k])
C18_FirstWriterWins == [][C18_Step]_vars

\* an entry opened with the date 2025-12-29 was merged with the line
\* "saturday" and normalized, and still has its date
C18_Witness ==
  /\ pcP = "done"
  /\ Len(lines) = 2
  /\ lines[1] = <<N("12", 12), P("/"), N("29", 29), P("/"), N("25", 25)>>
  /\ lines[2] = <<W("saturday")>>
  /\ StrTruthy(findDate(lines[2], today, procOff))
  /\ Len(parsed) = 1
  /\ parsed[1].date = D(8)

\* a helper-hours mention with no dollar amount and no other money keyword
NoDollar(atoms) ==
  \A i \in DOMAIN atoms :
    /\ ~IsPunct(atoms, i, {"$"})
    /\ ~(atoms[i].t = "word" /\ atoms[i].s \in MoneyKeywords \ {"helper"})
HelperMention(line) == findHelperHours(line) # <<>> /\ NoDollar(line)

\* C19: merging a helper-hours line into the open entry appends
\* "helper <N>hrs. " (and the line) to the notes and leaves the materials as
\* they are, and the normalizer leaves the materials of an entry alone whose
\* notes hold no dollar amount and no money keyword besides "helper"
C19_Step ==
  /\ AtLine /\ current # <<>> /\ HelperMention(lines[li])
       /\ ~WorkerColon(lines[li]) =>
       /\ current' # <<>>
       /\ current'[1].notes =
            Cat(Cat(current[1].notes, HelperNote(findHelperHours(lines[li])), TRUE),
                lines[li], TRUE)
       /\ current'[1].materials = current[1].materials
  /\ pcP = "scan" /\ pcP' = "done" =>
       \A k \in DOMAIN (parsed \o current) :
         NoDollar((parsed \o current)[k].notes.a) =>
           parsed'[k].materials = (parsed \o current)[k].materials
C19_HelperHoursOnlyInNotes == [][C19_Step]_vars

\* C20: with no entry open, a turn of the loop on a line that carries no
\* worker, date, time range, money or address candidate leaves the output as it
\* is and no entry open
C20_Step ==
  AtLine /\ current = <<>> /\ ~Carries(lines[li], today, procOff) =>
    current' = <<>> /\ parsed' = parsed
C20_NoiseDiscarded == [][C20_Step]_vars

\* the line "thanks" was read with no entry open, and none is open after it
C20_Witness ==
  /\ pcP = "scan" /\ li = 2
  /\ lines[1] = <<W("thanks")>>
  /\ ~Carries(lines[1], today, procOff)
  /\ current = <<>> /\ parsed = <<>>

\* ---- the normalizer
\* the weekday names in the notes, as the pattern of line 235 finds them
NoteWeekdays(e) ==
  {i \in DOMAIN e.notes.a :
     /\ e.notes.a[i].t = "word" /\ e.notes.a[i].s \in WeekdayNames
     /\ BoundaryBefore(e.notes.a, i) /\ BoundaryAfter(e.notes.a, i)}

\* the date the claim gives entry e after normalization: f is the normalized
\* entry
DateInOrder(e, f) ==
  IF StrTruthy(e.date) THEN f.date = e.date
  ELSE IF NoteWeekdays(e) # {}
       THEN f.date = isoForWeekday(e.notes.a[Least(NoteWeekdays(e))].s, today, procOff)
  ELSE IF StrTruthy(e.start) /\ StrTruthy(e.end)
       THEN \E tod \in TimesOfDay : f.date = UtcDate(today, tod, procOff)
  ELSE f.date = Null

\* C21: the normalizer fills a missing date in a fixed order: the weekday named
\* in the notes first (also when start and end are present), the processing
\* date only when the date is still absent and start and end are present,
\* and otherwise the date stays absent
C21_Step ==
  pcP = "scan" /\ pcP' = "done" =>
    \A k \in DOMAIN (parsed \o current) :
      DateInOrder((parsed \o current)[k], parsed'[k])
C21_DateFillOrder == [][C21_Step]_vars

\* an entry without a date, with start and end, whose notes read
\* "12 Oak St sat 9:00 - 9:07 " got the date of the weekday
C21_Witness ==
  /\ pcP = "done"
  /\ Len(lines) = 2
  /\ lines[1] = <<N("12", 12), Sp(W("Oak")), Sp(W("St")), Sp(W("s"))>>
  /\ lines[2][1] = W("at")
  /\ Len(parsed) = 1
  /\ StrTruthy(parsed[1].start) /\ StrTruthy(parsed[1].end)
  /\ \E i \in DOMAIN parsed[1].notes.a : parsed[1].notes.a[i].s = "sat"
  /\ parsed[1].date = isoForWeekday("sat", today, procOff)
  /\ \A tod \in TimesOfDay : parsed[1].date # UtcDate(today, tod, procOff)

\* ---- findMoney
\* atoms i .. i+2 spell a bare time H:MM
BareTimeAt(line, i) ==
  /\ i + 2 <= Len(line)
  /\ line[i].t = "num" /\ Len(line[i].s) <= 2
  /\ IsPunct(line, i + 1, {":"}) /\ Glued(line, i + 1)
  /\ line[i + 2].t = "num" /\ Glued(line, i + 2) /\ Len(line[i + 2].s) = 2

\* the line has no "$", and the number after each of its money keywords is a
\* bare time
KeywordBeforeTime(line) ==
  /\ \A i \in DOMAIN line : ~IsPunct(line, i, {"$"})
  /\ \E i \in DOMAIN line : line[i].t = "word" /\ line[i].s \in MoneyKeywords
  /\ \A i \in DOMAIN line :
       line[i].t = "word" /\ line[i].s \in MoneyKeywords => BareTimeAt(line, i + 1)

\* C22: for a line whose money keyword is followed by a bare time H:MM and
\* that has no $ amount, findMoney returns no match, and the turn of the loop
\* that reads the line gives the entry no materials
C22_Step ==
  AtLine /\ KeywordBeforeTime(lines[li])
    /\ (current = <<>> \/ ~Truthy(current[1].materials)) =>
      /\ findMoney(lines[li]) = Null
      /\ current' = <<>> \/ ~Truthy(current'[1].materials)
C22_NoMoneyFromTime == [][C22_Step]_vars

\* ---- the allocation engine, group by group
\* the row has a totalHours or a start/end pair
DurationKnown(r) ==
  Truthy(r.totalHours) \/ (StrTruthy(r.start) /\ StrTruthy(r.end))

\* row f is row r with at most a missing totalHours filled in from r's own
\* start and end (no wrap past midnight; date tells whether the group has one)
OnlyHoursFilled(r, f, date) ==
  IF Truthy(r.totalHours) THEN f = r
  ELSE /\ f = [r EXCEPT !.totalHours = f.totalHours]
       /\ date.k = "date" =>
            f.totalHours = Num(Max(0, Round(r.end.v - r.start.v, 15) * 15))

\* C23: a group in which every row has a totalHours or a start/end pair is
\* emitted row by row in input order, each row unchanged but for a missing
\* totalHours, which is filled in from the row's own start and end
C23_KnownDurationsPassThrough ==
  \A k \in DOMAIN emitLog :
    (\A i \in DOMAIN groups[k].rows : DurationKnown(groups[k].rows[i])) =>
      /\ Len(emitLog[k].rows) = Len(groups[k].rows)
      /\ \A i \in DOMAIN groups[k].rows :
           OnlyHoursFilled(groups[k].rows[i], emitLog[k].rows[i], groups[k].date)

\* a group of a row with totalHours and a row with start and end only went
\* through, and the second row got its 8 hours
C23_Witness ==
  /\ pcA = "done"
  /\ Len(groups) = 1 /\ Len(groups[1].rows) = 2
  /\ Truthy(groups[1].rows[1].totalHours)
  /\ ~Truthy(groups[1].rows[2].totalHours)
  /\ groups[1].rows[2].start = T(540) /\ groups[1].rows[2].end = T(1020)
  /\ Len(emitLog) = 1
  /\ emitLog[1].rows[2].totalHours = Num(480)

\* the rows of a group that carry a totalHours
WithHours(rows) == {i \in DOMAIN rows : Truthy(rows[i].totalHours)}

\* C24: in a group that is allocated, the totalHours of the single row that
\* carries one is the day-total, and when two or more rows carry a totalHours
\* (equal or not) the day-total is the sum of these hours
C24_DayTotalOnceOrSum ==
  \A i \in DOMAIN allocLog :
    LET rows == groups[allocLog[i].group].rows
    IN /\ Cardinality(WithHours(rows)) = 1 =>
            allocLog[i].dayTotal = rows[CHOOSE j \in WithHours(rows) : TRUE].totalHours.v
       /\ Cardinality(WithHours(rows)) >= 2 =>
            allocLog[i].dayTotal = HoursOf(Fixed(rows))

\* the minutes from start to end of a row with both, rounded to 15
OwnMinutes(r) ==
  IF StrTruthy(r.start) /\ StrTruthy(r.end) /\ r.start.k = "time" /\ r.end.k = "time"
  THEN Round(r.end.v - r.start.v, 15) * 15 ELSE 0

\* no row carries totalHours, a row has a start/end pair of positive duration
\* and a row has no usable duration
MixedGroup(g) ==
  /\ g.date.k = "date"
  /\ \A i \in DOMAIN g.rows : ~Truthy(g.rows[i].totalHours)
  /\ \E i \in DOMAIN g.rows : OwnMinutes(g.rows[i]) > 0
  /\ \E i \in DOMAIN g.rows : ~DurationKnown(g.rows[i])

\* C25: for such a group the day-total is the sum of the start/end-derived
\* durations, the group is allocated, and every row is emitted with a start,
\* an end and a totalHours (those lacking a duration with newly assigned ones)
C25_MixedGroupAllocated ==
  \A k \in DOMAIN emitLog :
    MixedGroup(groups[k]) =>
      /\ \E i \in DOMAIN allocLog :
           /\ allocLog[i].group = k
           /\ allocLog[i].dayTotal =
                SumSeq([j \in DOMAIN groups[k].rows |-> OwnMinutes(groups[k].rows[j])])
      /\ \A j \in DOMAIN emitLog[k].rows :
           /\ StrTruthy(emitLog[k].rows[j].start)
           /\ StrTruthy(emitLog[k].rows[j].end)
           /\ emitLog[k].rows[j].totalHours.k = "num"

\* round(weight_j / sum(weights) * available_minutes) for target j of the
\* allocation a
Share(a, j) ==
  Round(complexityWeight(a.targets[j].notes) * a.availableMinutes,
        SumSeq([t \in DOMAIN a.targets |-> complexityWeight(a.targets[t].notes)]))

\* C26: in an allocated group (with a usable date) the available minutes are
\* not negative and every target's end is its start plus its share of them,
\* also when the share rounds to 0
C26_EndIsStartPlusShare ==
  \A i \in DOMAIN allocLog :
    AllNumeric(allocLog[i].targets) /\ allocLog[i].targets # <<>> =>
      /\ allocLog[i].availableMinutes >= 0
      /\ \A j \in DOMAIN allocLog[i].targets :
           (allocLog[i].targets[j].end.v - allocLog[i].targets[j].start.v) % 1440
             = Share(allocLog[i], j) % 1440

\* the start times of the fixed rows of the allocation a
FixedStartTimes(a) ==
  {a.fixed[j].start.v : j \in {t \in DOMAIN a.fixed : a.fixed[t].start.k = "time"}}

\* the start the claim gives the first target: the earliest fixed start
\* rounded to 15 minutes, else 08:00
ClaimedFirstStart(a) ==
  IF FixedStartTimes(a) # {}
  THEN T((Round(CHOOSE x \in FixedStartTimes(a) : \A y \in FixedStartTimes(a) : x <= y,
                15) * 15) % 1440)
  ELSE T(8 * 60)

\* C27: in an allocated group (with a usable date) the first target starts at
\* the earliest start of the fixed rows rounded to 15 minutes, or at 08:00
\* when no fixed row has a start, and every later target starts at a multiple
\* of 15 minutes, round15(previous end + travel minutes to it)
C27_TargetStarts ==
  \A i \in DOMAIN allocLog :
    AllNumeric(allocLog[i].targets) /\ allocLog[i].targets # <<>> =>
      /\ allocLog[i].targets[1].start = ClaimedFirstStart(allocLog[i])
      /\ \A j \in DOMAIN allocLog[i].targets :
           j > 1 =>
             /\ allocLog[i].targets[j].start.v % 15 = 0
             /\ allocLog[i].targets[j].start.v =
                  (Round(allocLog[i].targets[j - 1].end.v + allocLog[i].travel[j - 1], 15)
                     * 15) % 1440

\* C28: for an allocated group the output lists the group's rows that carry
\* a totalHours first, each exactly as it came in, and then the other rows in
\* their input order (the same addresses, notes and materials)
C28_FixedFirstThenTargets ==
  \A i \in DOMAIN allocLog :
    LET rows == groups[allocLog[i].group].rows
        emitted == emitLog[allocLog[i].group].rows
        nf == Len(SelectSeq(rows, LAMBDA r : Truthy(r.totalHours)))
    IN /\ Len(emitted) = Len(rows)
       /\ SubSeq(emitted, 1, nf) = SelectSeq(rows, LAMBDA r : Truthy(r.totalHours))
       /\ [j \in 1..(Len(rows) - nf) |-> Identity(emitted[nf + j])]
            = [j \in 1..(Len(rows) - nf) |->
                 Identity(SelectSeq(rows, LAMBDA r : ~Truthy(r.totalHours))[j])]

\* a group that came in as target, fixed row, target went out as fixed row,
\* target, target
C28_Witness ==
  /\ pcA = "done"
  /\ Len(entries) = 3 /\ Len(groups) = 1 /\ Len(allocLog) = 1
  /\ ~Truthy(entries[1].totalHours) /\ Truthy(entries[2].totalHours)
  /\ ~Truthy(entries[3].totalHours)
  /\ entries[1].address # entries[3].address
  /\ out[1] = entries[2]
  /\ out[2].address = entries[1].address /\ out[3].address = entries[3].address

\* C29: a row that comes in with its own start and end is emitted with the
\* same start and end, whatever the other rows of its group are
C29_OwnTimesKept ==
  \A k \in DOMAIN emitLog :
    \A i \in DOMAIN groups[k].rows :
      StrTruthy(groups[k].rows[i].start) /\ StrTruthy(groups[k].rows[i].end) =>
        \E j \in DOMAIN emitLog[k].rows :
          /\ Identity(emitLog[k].rows[j]) = Identity(groups[k].rows[i])
          /\ emitLog[k].rows[j].start = groups[k].rows[i].start
          /\ emitLog[k].rows[j].end = groups[k].rows[i].end

\* ---- the draft store under concurrent requests
\* the drafts stored so far are kept, in place and unchanged
AppendOnly ==
  /\ Len(parsedDrafts') >= Len(parsedDrafts)
  /\ SubSeq(parsedDrafts', 1, Len(parsedDrafts)) = parsedDrafts

\* no two stored drafts share an id, the id returned to a caller finds the
\* entries returned to that caller, and an export with it was given them
Retrievable ==
  /\ \A a, b \in DOMAIN parsedDrafts : a # b => parsedDrafts[a].id # parsedDrafts[b].id
  /\ \A r \in DOMAIN reqs :
       reqs[r].draftId # -1 =>
         /\ FindDraft(reqs[r].draftId) # 0
         /\ parsedDrafts[FindDraft(reqs[r].draftId)].entries = reqs[r].entries
         /\ reqs[r].pc = "exported" =>
              /\ reqs[r].exportStatus = 200
              /\ reqs[r].exported = reqs[r].entries

\* C30: under every interleaving of the text, OCR and preview requests, also
\* within one millisecond, every stored draft stays retrievable under the
\* draftId returned to its caller (ids are unique and an export with a returned
\* id exports that caller's entries), and drafts are only appended
C30_DraftsStayRetrievable == []Retrievable /\ [][AppendOnly]_vars

====
